---- MODULE Spec2Model ----
(***************************************************************************)
(* polymarket-watch: the ingest -> signals -> scoring -> notifier pipeline *)
(* over one shared relational store, with the durable cursors of the       *)
(* app_state table.                                                        *)
(*                                                                         *)
(* Units.  Time is counted in minutes.  Prices are hundredths (0..100      *)
(* stands for 0.00..1.00), so a notional shares*price is in hundredths of  *)
(* a dollar and is compared against threshold*PriceScale.  Aggregator      *)
(* weights and severity multipliers are kept in halves, so alert scores,   *)
(* the bonus and the thresholds are in quarters and every default is an    *)
(* integer.  accuracy_score is in ten-thousandths (Numeric(5, 4)).         *)
(***************************************************************************)
EXTENDS Integers, Sequences, FiniteSets, TLC

(* ---------------------------------------------------------------------- *)
(* Bounds of the model                                                     *)
(* ---------------------------------------------------------------------- *)
MaxTrades == 3
MaxPage == 2
MaxNow == 140
MaxEmit == 2
MaxAttempt == 2
MaxBatch == 2
MaxNotify == 2
MaxEvaluated == 6
MaxSignals == 3
MaxEngineTrades == 4

(* ---------------------------------------------------------------------- *)
(* Program constants                                                       *)
(* ---------------------------------------------------------------------- *)
PriceScale == 100

\* services/signals/worker.py BATCH_SIZE is 200 and the notifier's
\* .limit(50) is 50; both are scaled down to a bound of the model, so that
\* the store can hold more rows than one batch takes.
BATCH_SIZE == MaxBatch
ENGINE_BATCH_SIZE == MaxEngineTrades
NOTIFIER_LIMIT == MaxNotify

BIG_NOTIONAL == 1000
LOW_ACTIVITY_WINDOW == 1440
LOW_ACTIVITY_MAX_TRADES == 2
REPEAT_WINDOW == 10
REPEAT_MIN_COUNT == 3
IMPACT_DEVIATION == 5
IMPACT_MIN_NOTIONAL == 500
CLUSTER_WINDOW == 5
CLUSTER_MIN_WALLETS == 3
CLUSTER_MIN_NOTIONAL == 200
SMART_WALLET_MIN_ACCURACY == 6000
SMART_WALLET_MIN_TRADES == 5
SMART_WALLET_MIN_NOTIONAL == 100
HISTORY_LIMIT == 50
BASELINE_LEN == 10

WINDOW == 120
bonus_per_extra_type == 10
high_threshold == 48
watch_threshold == 16

None == -1

\* backoff of the worker loops, in seconds (the base is 5 in every worker)
MaxFailures == 7
BACKOFF_BASE_SECONDS == 5
SIGNALS_BACKOFF_MAX_SECONDS == 120
SCORING_BACKOFF_MAX_SECONDS == 180
NOTIFIER_BACKOFF_MAX_SECONDS == 300
ingestion_backoff_base_seconds == 5
ingestion_backoff_max_seconds == 300
ingestion_trades_poll_interval_min_seconds == 30
ingestion_trades_poll_interval_max_seconds == 60

Markets == {1, 2}
Wallets == {"w1", "w2", "w3"}
Sides == {"buy", "sell"}

(* ---------------------------------------------------------------------- *)
(* The upstream trade feed: the normalized entries a page may carry        *)
(* ---------------------------------------------------------------------- *)
FeedTrade(m, w, s, sh, p, at, h) ==
    [market_external_id |-> m, wallet_address |-> w, side |-> s,
     shares |-> sh, price |-> p, traded_at |-> at, trade_hash |-> h]

FeedTrades ==
    { FeedTrade(1, "w1", "buy", 2000, 60, 10, "h1"),
      FeedTrade(1, "w2", "buy", 2000, 60, 12, "h2"),
      FeedTrade(2, "w2", "sell", 2000, 50, 11, "h3"),
      FeedTrade(1, "w1", "sell", 1000, 50, 12, "") }

FeedOf(m) == { t \in FeedTrades : t.market_external_id = m }

Pages(m) ==
    UNION { [1..n -> FeedOf(m)] : n \in 1..MaxPage }

\* a longer stretch of the feed: one wallet's run of entries on (1, buy),
\* a trade of it more than a day later, and trades on another side, by
\* another wallet and on another market; listed in the order of arrival
EngineFeed ==
    << FeedTrade(1, "w1", "buy", 2000, 60, 1600, "e1"),
       FeedTrade(1, "w1", "buy", 2000, 60, 100, "e2"),
       FeedTrade(1, "w1", "buy", 2000, 60, 104, "e3"),
       FeedTrade(1, "w1", "buy", 2000, 60, 108, "e4"),
       FeedTrade(1, "w1", "buy", 2000, 60, 110, "e5"),
       FeedTrade(1, "w1", "sell", 2000, 60, 104, "e6"),
       FeedTrade(1, "w2", "buy", 100, 60, 102, "e7"),
       FeedTrade(2, "w2", "buy", 2000, 50, 106, "e8") >>

\* a quiet market's earlier entries: h small trades on market 1, the oldest
\* at 0.90 and the others at 0.50, one a minute
HistoryBlock(h) ==
    [i \in 1..h |->
        FeedTrade(1, "w2", "buy", 100, IF i = 1 THEN 90 ELSE 50, i, "")]

\* the entries that follow them: trades at prices off and on the market's
\* level, below and above the notional of 500, and two on another market
ImpactFeed ==
    << FeedTrade(1, "w1", "buy", 1000, 58, 100, "i1"),
       FeedTrade(1, "w1", "sell", 1000, 55, 103, "i2"),
       FeedTrade(1, "w2", "buy", 500, 58, 105, "i3"),
       FeedTrade(1, "w1", "buy", 2000, 50, 107, "i4"),
       FeedTrade(2, "w1", "buy", 1000, 60, 104, "i5"),
       FeedTrade(2, "w2", "buy", 1000, 63, 106, "i6") >>

\* entries of three wallets on (1, buy) a few minutes apart, of notional 300
\* or well below it, with one on the other side and one on another market
ClusterFeed ==
    << FeedTrade(1, "w1", "buy", 500, 60, 100, "c1"),
       FeedTrade(1, "w2", "buy", 500, 60, 102, "c2"),
       FeedTrade(1, "w3", "buy", 500, 60, 104, "c3"),
       FeedTrade(1, "w3", "buy", 100, 60, 105, "c4"),
       FeedTrade(1, "w3", "sell", 500, 60, 104, "c5"),
       FeedTrade(1, "w1", "buy", 100, 50, 99, "c6"),
       FeedTrade(1, "w1", "buy", 500, 60, 98, "c7"),
       FeedTrade(2, "w2", "buy", 500, 60, 103, "c8") >>

\* entries of notional 60, 99.99, 100 and 120 by a profiled wallet, and one
\* of notional 120 by another wallet
SmartFeed ==
    << FeedTrade(1, "w1", "buy", 100, 60, 100, "s1"),
       FeedTrade(1, "w1", "buy", 3333, 3, 102, "s2"),
       FeedTrade(1, "w1", "sell", 200, 50, 104, "s3"),
       FeedTrade(2, "w1", "buy", 200, 60, 106, "s4"),
       FeedTrade(1, "w2", "buy", 200, 60, 103, "s5") >>

\* a sell and a buy at 0.50 on market 1, and small later trades near their
\* 15-minute, 1-hour and 4-hour horizons at 0.00, 0.54, 0.45 and 0.55
HorizonFeed ==
    << FeedTrade(1, "w1", "sell", 1000, 50, 10, "p1"),
       FeedTrade(1, "w2", "buy", 1000, 50, 12, "p2"),
       FeedTrade(1, "w3", "buy", 1, 0, 25, "p3"),
       FeedTrade(1, "w3", "buy", 1, 45, 71, "p4"),
       FeedTrade(1, "w3", "buy", 1, 55, 251, "p5"),
       FeedTrade(1, "w3", "buy", 1, 54, 26, "p6") >>

\* the entries of feed at the places S, in the order of feed
SubFeed(feed, S) ==
    [k \in 1..Cardinality(S) |->
        feed[CHOOSE i \in S : Cardinality({ j \in S : j < i }) = k - 1]]

(* ---------------------------------------------------------------------- *)
(* State                                                                   *)
(* ---------------------------------------------------------------------- *)
VARIABLES
    now,            \* wall clock / now() of the store
    trades,         \* trades table, in id order
    signal_events,  \* signal_events table, in id order
    alerts,         \* alerts table, in id order
    wallet_stats,   \* wallet_stats table: wallet -> row or None
    trade_cursor,   \* app_state cursor:trades:<market>
    signal_cursor,  \* app_state cursor:signals:last_trade_at
    scoring_cursor, \* app_state cursor:scoring:last_signal_id
    notifier_cursor,\* app_state cursor:notifier:last_alert_ts
    ing,            \* ingestion worker: position inside poll_market_trades
    sig,            \* signals worker: its open transaction
    sco,            \* scoring workers: their open transactions
    emit_count,     \* messages sent per alert id (saturating at MaxEmit)
    evaluated,      \* trade id -> number of committed batches that held it
    pass_log,       \* what the last committed aggregation pass saw
    replay_log,     \* what the last two replay runs produced
    notif,          \* notifier process: its settings and whether it runs
    fav,            \* a call of is_favorable_move: its arguments and results
    loop            \* one worker's run loop: backoff counter, last sleep, schedule

vars == <<now, trades, signal_events, alerts, wallet_stats, trade_cursor,
          signal_cursor, scoring_cursor, notifier_cursor, ing, sig, sco,
          emit_count, evaluated, pass_log, replay_log, notif, fav, loop>>

(* ---------------------------------------------------------------------- *)
(* Generic helpers                                                         *)
(* ---------------------------------------------------------------------- *)
Max(a, b) == IF a >= b THEN a ELSE b

Min(a, b) == IF a <= b THEN a ELSE b

Range(s) == { s[i] : i \in 1..Len(s) }

RECURSIVE SumSeq(_)
SumSeq(s) == IF s = <<>> THEN 0 ELSE Head(s) + SumSeq(Tail(s))

LastN(s, n) == IF Len(s) <= n THEN s ELSE SubSeq(s, Len(s) - n + 1, Len(s))

FirstN(s, n) == IF Len(s) <= n THEN s ELSE SubSeq(s, 1, n)

\* the place of s[i] in a stable sort of s by traded_at
RankByTradedAt(s, i) ==
    1 + Cardinality({ j \in 1..Len(s) :
                        \/ s[j].traded_at < s[i].traded_at
                        \/ (s[j].traded_at = s[i].traded_at /\ j < i) })

\* sorted(..., key=traded_at): stable
SortByTradedAt(s) ==
    [k \in 1..Len(s) |-> s[CHOOSE i \in 1..Len(s) : RankByTradedAt(s, i) = k]]

\* the orders in which a query may return rows under ORDER BY key, keys[i]
\* being the key of rows[i]: every permutation that is ascending in the key
\* (rows of equal key in any order)
OrderedBy(rows, keys) ==
    LET n == Len(rows)
        perms == { p \in [1..n -> 1..n] :
                     /\ \A a, b \in 1..n : p[a] = p[b] => a = b
                     /\ \A a \in 1..(n - 1) : keys[p[a]] <= keys[p[a + 1]] }
    IN  { [k \in 1..n |-> rows[p[k]]] : p \in perms }

(* ---------------------------------------------------------------------- *)
(* Ingestion worker (services/ingestion/worker.py)                         *)
(* ---------------------------------------------------------------------- *)

\* uq_trades_dedupe: the composite identity of a trade row
DedupeKey(r) ==
    <<r.market_id, r.wallet_address, r.traded_at, r.side, r.shares, r.price>>

\* the row insert_trades builds from a normalized feed entry
TradeValues(t) ==
    [market_id |-> t.market_external_id, wallet_address |-> t.wallet_address,
     side |-> t.side, shares |-> t.shares, price |-> t.price,
     traded_at |-> t.traded_at, trade_hash |-> t.trade_hash]

\* a proposed row conflicts with a stored one on uq_trades_dedupe or, when it
\* carries a hash, on uq_trades_trade_hash ("" stands for a NULL hash, which
\* never conflicts)
TradeConflicts(store, v) ==
    \E i \in 1..Len(store) :
        \/ DedupeKey(store[i]) = DedupeKey(v)
        \/ (v.trade_hash # "" /\ store[i].trade_hash = v.trade_hash)

\* a buggy insert: plain INSERT, no conflict handling
RECURSIVE InsertTradeRowsNoConflict(_, _)
InsertTradeRowsNoConflict(store, page) ==
    IF page = <<>> THEN store
    ELSE InsertTradeRowsNoConflict(
             Append(store, [id |-> Len(store) + 1] @@ TradeValues(Head(page))),
             Tail(page))

\* INSERT ... ON CONFLICT DO NOTHING of the page's rows, in page order
RECURSIVE InsertTradeRows(_, _)
InsertTradeRows(store, page) ==
    IF page = <<>> THEN store
    ELSE LET v == TradeValues(Head(page))
         IN  InsertTradeRows(
                 IF TradeConflicts(store, v)
                 THEN store
                 ELSE Append(store, [id |-> Len(store) + 1] @@ v),
                 Tail(page))

\* latest_at of insert_trades: the largest traded_at of the page
RECURSIVE LatestAt(_)
LatestAt(page) ==
    IF page = <<>> THEN None
    ELSE Max(Head(page).traded_at, LatestAt(Tail(page)))

IngIdle == [pc |-> "idle", market |-> None, inserted |-> 0,
            latest_at |-> None, since |-> None]

\* poll_market_trades up to the commit inside insert_trades
PollInsert(m, page) ==
    /\ ing.pc = "idle"
    /\ Len(InsertTradeRows(trades, page)) <= MaxTrades
    /\ trades' = InsertTradeRows(trades, page)
    /\ ing' = [pc |-> "inserted", market |-> m,
               inserted |-> Len(trades') - Len(trades),
               latest_at |-> LatestAt(page),
               since |-> trade_cursor[m]]
    /\ evaluated' = [i \in 1..Len(trades') |->
                         IF i <= Len(trades) THEN evaluated[i] ELSE 0]
    /\ UNCHANGED <<now, signal_events, alerts, wallet_stats, trade_cursor,
                   signal_cursor, scoring_cursor, notifier_cursor, sig, sco,
                   emit_count, pass_log, replay_log, notif, fav, loop>>

\* poll_market_trades from start to end, when nothing fails in between
PollMarketTrades(m, page) ==
    /\ ing.pc = "idle"
    /\ Len(InsertTradeRows(trades, page)) <= MaxTrades
    /\ trades' = InsertTradeRows(trades, page)
    /\ trade_cursor' = [trade_cursor EXCEPT ![m] = LatestAt(page)]
    /\ evaluated' = [i \in 1..Len(trades') |->
                         IF i <= Len(trades) THEN evaluated[i] ELSE 0]
    /\ UNCHANGED <<now, signal_events, alerts, wallet_stats, signal_cursor,
                   scoring_cursor, notifier_cursor, ing, sig, sco, emit_count,
                   pass_log, replay_log, notif, fav, loop>>

\* poll_market_trades: "if latest_at: _store_cursor(...)" and its commit
PollStoreCursor ==
    /\ ing.pc = "inserted"
    /\ trade_cursor' = [trade_cursor EXCEPT ![ing.market] = ing.latest_at]
    /\ ing' = IngIdle
    /\ UNCHANGED <<now, trades, signal_events, alerts, wallet_stats,
                   signal_cursor, scoring_cursor, notifier_cursor, sig, sco,
                   emit_count, evaluated, pass_log, replay_log, notif, fav, loop>>

\* the worker dies, or _store_cursor raises, after insert_trades committed
PollCrash ==
    /\ ing.pc = "inserted"
    /\ ing' = IngIdle
    /\ UNCHANGED <<now, trades, signal_events, alerts, wallet_stats,
                   trade_cursor, signal_cursor, scoring_cursor,
                   notifier_cursor, sig, sco, emit_count, evaluated, pass_log,
                   replay_log, notif, fav, loop>>

(* ---------------------------------------------------------------------- *)
(* Ingestion client (services/ingestion/client.py): raw feed entries       *)
(* ---------------------------------------------------------------------- *)

\* an entry of the trades endpoint as it arrives; "" stands for a missing
\* wallet or side, None for a missing timestamp
RawTrade(w, s, sh, p, at, h) ==
    [wallet |-> w, side |-> s, shares |-> sh, price |-> p, timestamp |-> at,
     hash |-> h]

RawTrades ==
    { RawTrade("w1", "BUY", 2000, 60, 10, "h1"),
      RawTrade("w2", "Sell", 2000, 50, 11, "h3"),
      RawTrade("w1", "HOLD", 1000, 50, 12, ""),
      RawTrade("w2", "buy", 1000, 150, 12, "h6"),
      RawTrade("w1", "", 1000, 50, 12, "h8"),
      RawTrade("", "buy", 1000, 50, 12, "h7"),
      RawTrade("w2", "sell", 1000, 50, None, "h9") }

RawPages == UNION { [1..n -> RawTrades] : n \in 1..MaxPage }

\* str.lower() on the side strings of the feed
Lower(s) ==
    CASE s \in {"BUY", "Buy", "buy"} -> "buy"
      [] s \in {"SELL", "Sell", "sell"} -> "sell"
      [] s \in {"HOLD", "hold"} -> "hold"
      [] s \in {"UNKNOWN", "unknown"} -> "unknown"
      [] OTHER -> s

\* fetch_recent_trades: the normalized entry of one raw entry
NormalizeTrade(m, item) ==
    FeedTrade(m, item.wallet,
              Lower(IF item.side = "" THEN "unknown" ELSE item.side),
              item.shares, item.price, item.timestamp, item.hash)

\* fetch_recent_trades: entries without wallet or timestamp are dropped
RECURSIVE FetchRecentTrades(_, _)
FetchRecentTrades(m, raw_trades) ==
    IF raw_trades = <<>> THEN <<>>
    ELSE LET trade == NormalizeTrade(m, Head(raw_trades))
         IN  (IF trade.wallet_address # "" /\ trade.traded_at # None
              THEN <<trade>> ELSE <<>>)
                 \o FetchRecentTrades(m, Tail(raw_trades))

\* a poll over a raw page; a page of which nothing is left returns
\* "0, None" from insert_trades and changes nothing
RawPolls ==
    \E m \in Markets : \E raw \in RawPages :
        /\ FetchRecentTrades(m, raw) # <<>>
        /\ PollMarketTrades(m, FetchRecentTrades(m, raw))

(* ---------------------------------------------------------------------- *)
(* Signal engine (services/signals/engine.py)                              *)
(* ---------------------------------------------------------------------- *)
Signal(t, type, severity, score) ==
    [market_id |-> t.market_id, wallet_address |-> t.wallet_address,
     side |-> t.side, signal_type |-> type, severity |-> severity,
     score |-> score, observed_at |-> t.traded_at]

\* _notional, in hundredths of a dollar
Notional(shares, price) == shares * price

RECURSIVE MinTradedAt(_)
MinTradedAt(rows) ==
    IF rows = <<>> THEN None
    ELSE LET rest == MinTradedAt(Tail(rows))
         IN  IF rest = None THEN Head(rows).traded_at
             ELSE Min(Head(rows).traded_at, rest)

\* a buggy history: first_seen is taken from the last 24 hours only
LoadWalletHistoryRecentOnly(store, w, before) ==
    LET rows == SelectSeq(store, LAMBDA r :
                    /\ r.wallet_address = w /\ r.traded_at < before
                    /\ r.traded_at >= before - LOW_ACTIVITY_WINDOW)
    IN  [first_seen |-> MinTradedAt(rows), recent |-> Len(rows)]

\* a buggy count: the wallet's trades from the cutoff on, those of the batch
\* itself included
LoadWalletHistoryNoUpperBound(store, w, before) ==
    LET rows == SelectSeq(store, LAMBDA r :
                    r.wallet_address = w /\ r.traded_at < before)
        recent == SelectSeq(store, LAMBDA r :
                    /\ r.wallet_address = w
                    /\ r.traded_at >= before - LOW_ACTIVITY_WINDOW)
    IN  [first_seen |-> MinTradedAt(rows), recent |-> Len(recent)]

\* _load_wallet_history: first_seen and the 24h count of one wallet, from the
\* store's trades strictly before the batch's earliest trade
LoadWalletHistory(store, w, before) ==
    LET rows == SelectSeq(store, LAMBDA r :
                    r.wallet_address = w /\ r.traded_at < before)
        recent == SelectSeq(rows, LAMBDA r :
                    r.traded_at >= before - LOW_ACTIVITY_WINDOW)
    IN  [first_seen |-> MinTradedAt(rows), recent |-> Len(recent)]

\* _load_market_price_history: the last limit_per_market prices of one market
\* before the batch, ordered by traded_at (equal timestamps in id order)
LoadMarketPriceHistory(store, m, before) ==
    LET rows == SortByTradedAt(SelectSeq(store, LAMBDA r :
                    r.market_id = m /\ r.traded_at < before))
    IN  LastN([i \in 1..Len(rows) |-> rows[i].price], HISTORY_LIMIT)

\* a buggy baseline: the mean is taken over the whole history
BaselinePricesWholeHistory(history) == history

\* _baseline_price: the prices whose mean is the baseline, the last 10
BaselinePrices(history) == LastN(history, BASELINE_LEN)

\* a buggy filter: the evaluated_trades condition is left out
SmartWalletAnyCount(stats, w) ==
    /\ stats[w].present
    /\ stats[w].accuracy_score # None
    /\ stats[w].accuracy_score >= SMART_WALLET_MIN_ACCURACY

\* _load_wallet_stats: only the qualifying rows are loaded
SmartWallet(stats, w) ==
    /\ stats[w].present
    /\ stats[w].evaluated_trades >= SMART_WALLET_MIN_TRADES
    /\ stats[w].accuracy_score # None
    /\ stats[w].accuracy_score >= SMART_WALLET_MIN_ACCURACY

\* a buggy window: an entry exactly REPEAT_WINDOW old is dropped as well
RECURSIVE PopRepeatAtWindow(_, _)
PopRepeatAtWindow(win, at) ==
    IF win # <<>> /\ at - Head(win) >= REPEAT_WINDOW
    THEN PopRepeatAtWindow(Tail(win), at)
    ELSE win

\* "while repeat_window and traded_at - repeat_window[0] > REPEAT_WINDOW"
RECURSIVE PopRepeat(_, _)
PopRepeat(win, at) ==
    IF win # <<>> /\ at - Head(win) > REPEAT_WINDOW
    THEN PopRepeat(Tail(win), at)
    ELSE win

\* a buggy window: an entry exactly CLUSTER_WINDOW old is dropped as well
RECURSIVE PopClusterAtCutoff(_, _)
PopClusterAtCutoff(win, cutoff) ==
    IF win # <<>> /\ Head(win).at <= cutoff
    THEN PopClusterAtCutoff(Tail(win), cutoff)
    ELSE win

\* "while cluster_window and cluster_window[0][0] < cutoff"
RECURSIVE PopCluster(_, _)
PopCluster(win, cutoff) ==
    IF win # <<>> /\ Head(win).at < cutoff
    THEN PopCluster(Tail(win), cutoff)
    ELSE win

Abs(x) == IF x < 0 THEN -x ELSE x

\* a buggy severity: high only above 0.75
EarlyPositioningHighAbove(t, stats, min_notional) ==
    IF SmartWallet(stats, t.wallet_address)
       /\ Notional(t.shares, t.price) >= min_notional * PriceScale
    THEN <<Signal(t, "EARLY_POSITIONING",
                  IF stats[t.wallet_address].accuracy_score > 7500
                  THEN "high" ELSE "medium",
                  stats[t.wallet_address].accuracy_score
                      * Notional(t.shares, t.price))>>
    ELSE <<>>

\* a buggy detector: a wallet without a qualifying row is taken as smart
\* with the minimum accuracy
EarlyPositioningWithoutStats(t, stats, min_notional) ==
    IF Notional(t.shares, t.price) >= min_notional * PriceScale
    THEN <<Signal(t, "EARLY_POSITIONING",
                  IF SmartWallet(stats, t.wallet_address)
                     /\ stats[t.wallet_address].accuracy_score >= 7500
                  THEN "high" ELSE "medium",
                  (IF SmartWallet(stats, t.wallet_address)
                   THEN stats[t.wallet_address].accuracy_score
                   ELSE SMART_WALLET_MIN_ACCURACY)
                      * Notional(t.shares, t.price))>>
    ELSE <<>>

\* the EARLY_POSITIONING block of evaluate's loop, min_notional being the
\* engine's SMART_WALLET_MIN_NOTIONAL (an attribute a caller may set)
EarlyPositioning(t, stats, min_notional) ==
    IF SmartWallet(stats, t.wallet_address)
       /\ Notional(t.shares, t.price) >= min_notional * PriceScale
    THEN <<Signal(t, "EARLY_POSITIONING",
                  IF stats[t.wallet_address].accuracy_score >= 7500
                  THEN "high" ELSE "medium",
                  stats[t.wallet_address].accuracy_score
                      * Notional(t.shares, t.price))>>
    ELSE <<>>

\* the body of evaluate's loop for one trade; st carries wallet_history (wh),
\* market_price_history (ph), repeat_windows (rw), cluster_windows (cw) and
\* the signals emitted so far (out)
EvaluateTrade(st, t, stats, earliest) ==
    LET notional == Notional(t.shares, t.price)
        wallet == t.wallet_address
        hist == st.wh[wallet]
        fresh ==
            IF hist.first_seen = None /\ notional >= BIG_NOTIONAL * PriceScale
            THEN <<Signal(t, "FRESH_WALLET_BIG_SIZE", "high", notional)>>
            ELSE <<>>
        low ==
            IF hist.recent <= LOW_ACTIVITY_MAX_TRADES
               /\ notional >= BIG_NOTIONAL * PriceScale
            THEN <<Signal(t, "LOW_ACTIVITY_WALLET_BIG_SIZE", "medium", notional)>>
            ELSE <<>>
        rkey == <<wallet, t.market_id, t.side>>
        rwin == PopRepeat(Append(st.rw[rkey], t.traded_at), t.traded_at)
        repeat ==
            IF Len(rwin) >= REPEAT_MIN_COUNT
            THEN <<Signal(t, "REPEAT_ENTRIES", "medium", Len(rwin))>>
            ELSE <<>>
        history == st.ph[t.market_id]
        prices == BaselinePrices(history)
        total == SumSeq(prices)
        n == Len(prices)
        \* deviation = |price - total/n| / (total/n)
        devNum == Abs(t.price * n - total)
        impact ==
            IF n > 0 /\ total > 0
               /\ notional >= IMPACT_MIN_NOTIONAL * PriceScale
               /\ devNum * 100 >= IMPACT_DEVIATION * total
            THEN <<Signal(t, "THIN_MARKET_IMPACT",
                          IF devNum * 100 >= 2 * IMPACT_DEVIATION * total
                          THEN "high" ELSE "medium",
                          (devNum * 10000) \div total)>>
            ELSE <<>>
        ckey == <<t.market_id, t.side>>
        cwin == PopCluster(
                    Append(st.cw[ckey],
                           [at |-> t.traded_at, wallet |-> wallet, notional |-> notional]),
                    t.traded_at - CLUSTER_WINDOW)
        wallets_in_window == { cwin[i].wallet : i \in 1..Len(cwin) }
        total_notional == SumSeq([i \in 1..Len(cwin) |-> cwin[i].notional])
        cluster ==
            IF Cardinality(wallets_in_window) >= CLUSTER_MIN_WALLETS
               /\ total_notional >=
                      CLUSTER_MIN_NOTIONAL * PriceScale * Cardinality(wallets_in_window)
            THEN <<[details |-> [unique_wallets |-> Cardinality(wallets_in_window),
                                 total_notional |-> total_notional]]
                     @@ Signal(t, "CLUSTERING", "medium", total_notional)>>
            ELSE <<>>
        early == EarlyPositioning(t, stats, SMART_WALLET_MIN_NOTIONAL)
        \* "if trade.traded_at >= earliest - LOW_ACTIVITY_WINDOW": update recency
        hist2 ==
            IF t.traded_at >= earliest - LOW_ACTIVITY_WINDOW
            THEN [first_seen |-> IF hist.first_seen = None
                                 THEN t.traded_at ELSE hist.first_seen,
                  recent |-> hist.recent + 1]
            ELSE hist
    IN  [wh |-> [st.wh EXCEPT ![wallet] = hist2],
         ph |-> [st.ph EXCEPT ![t.market_id] =
                     LastN(Append(history, t.price), HISTORY_LIMIT)],
         rw |-> [st.rw EXCEPT ![rkey] = rwin],
         cw |-> [st.cw EXCEPT ![ckey] = cwin],
         out |-> st.out \o fresh \o low \o repeat \o impact \o cluster \o early]

\* "for trade in trade_list": the loop state after one trade is bound as a
\* value before the next trade is taken
RECURSIVE EvaluateLoop(_, _, _, _)
EvaluateLoop(st, trade_list, stats, earliest) ==
    IF trade_list = <<>> THEN st.out
    ELSE CHOOSE out \in
             { EvaluateLoop(st2, Tail(trade_list), stats, earliest) :
                 st2 \in { EvaluateTrade(st, Head(trade_list), stats, earliest) } } :
             TRUE

\* a buggy start: the wallets' histories are not loaded
EvaluateStartNoHistory(store, earliest) ==
    [wh |-> [w \in Wallets |-> [first_seen |-> None, recent |-> 0]],
     ph |-> [m \in Markets |-> LoadMarketPriceHistory(store, m, earliest)],
     rw |-> [k \in Wallets \X Markets \X Sides |-> <<>>],
     cw |-> [k \in Markets \X Sides |-> <<>>],
     out |-> <<>>]

\* the state evaluate starts its loop from
EvaluateStart(store, earliest) ==
    [wh |-> [w \in Wallets |-> LoadWalletHistory(store, w, earliest)],
     ph |-> [m \in Markets |-> LoadMarketPriceHistory(store, m, earliest)],
     rw |-> [k \in Wallets \X Markets \X Sides |-> <<>>],
     cw |-> [k \in Markets \X Sides |-> <<>>],
     out |-> <<>>]

\* SignalEngine.evaluate(session, trades): the signals of one batch
Evaluate(store, stats, batch) ==
    IF batch = <<>> THEN <<>>
    ELSE CHOOSE out \in
             { EvaluateLoop(st0, trade_list, stats, trade_list[1].traded_at) :
                 trade_list \in { SortByTradedAt(batch) },
                 st0 \in { EvaluateStart(store, MinTradedAt(batch)) } } :
             TRUE

(* ---------------------------------------------------------------------- *)
(* Signals worker (services/signals/worker.py)                             *)
(* ---------------------------------------------------------------------- *)

\* the traded_at column of rows
TradedAt(rows) == [i \in 1..Len(rows) |-> rows[i].traded_at]

\* the trades strictly after the cursor, or all without a cursor
TradesAfter(store, cursor) ==
    SelectSeq(store, LAMBDA r : cursor = None \/ r.traded_at > cursor)

\* a buggy fetch: the cursor comparison is inclusive
FetchTradesInclusive(store, cursor, limit) ==
    { FirstN(rows, limit) :
        rows \in OrderedBy(TradesAfter(store, cursor - 1),
                           TradedAt(TradesAfter(store, cursor - 1))) }

\* a buggy fetch: no ORDER BY, the rows come back in id order
FetchTradesUnordered(store, cursor, limit) ==
    { FirstN(TradesAfter(store, cursor), limit) }

\* _fetch_trades: ORDER BY traded_at LIMIT limit, strictly after the cursor
\* when there is one; the results the query may return
FetchTrades(store, cursor, limit) ==
    { FirstN(rows, limit) :
        rows \in OrderedBy(TradesAfter(store, cursor),
                           TradedAt(TradesAfter(store, cursor))) }

\* _insert_signals: the rows as stored, created_at from the server default
SignalRows(events, signals, created) ==
    events \o [i \in 1..Len(signals) |->
                  [id |-> Len(events) + i, created_at |-> created] @@ signals[i]]

\* a buggy failure path: the inserted signals survive the failure (each
\* statement committed on its own, as ingestion does)
SignalsAfterRollbackKeepsInserts(events, pending, created) ==
    SignalRows(events, pending, created)

\* "with session.begin():" left by an exception: everything is rolled back
SignalsAfterRollback(events, pending, created) == events

\* run_worker: the transaction body up to and including _store_cursor; the
\* writes stay pending inside the transaction.  An empty fetch raises
\* StopIteration and leaves everything as it is.
SignalsBegin ==
    /\ sig.pc = "idle"
    /\ \E batch \in FetchTrades(trades, signal_cursor, BATCH_SIZE) :
           /\ batch # <<>>
           /\ sig' = [pc |-> "open",
                       batch |-> [i \in 1..Len(batch) |-> batch[i].id],
                       pending |-> Evaluate(trades, wallet_stats, batch),
                       latest_at |-> batch[Len(batch)].traded_at,
                       ts |-> now,
                       backoff_attempt |-> sig.backoff_attempt]
    /\ UNCHANGED <<now, trades, signal_events, alerts, wallet_stats,
                   trade_cursor, signal_cursor, scoring_cursor,
                   notifier_cursor, ing, sco, emit_count, evaluated,
                   pass_log, replay_log, notif, fav, loop>>

SigIdle == [pc |-> "idle", batch |-> <<>>, pending |-> <<>>,
            latest_at |-> None, ts |-> None, backoff_attempt |-> 0]

\* the transaction commits: signals and cursor become visible together
SignalsCommit ==
    /\ sig.pc = "open"
    /\ signal_events' = SignalRows(signal_events, sig.pending, sig.ts)
    /\ signal_cursor' = sig.latest_at
    /\ evaluated' = [i \in DOMAIN evaluated |->
                        IF i \in Range(sig.batch)
                        THEN evaluated[i] + 1
                        ELSE evaluated[i]]
    /\ sig' = SigIdle
    /\ UNCHANGED <<now, trades, alerts, wallet_stats, trade_cursor,
                   scoring_cursor, notifier_cursor, ing, sco, emit_count,
                   pass_log, replay_log, notif, fav, loop>>

\* evaluation, insertion, the cursor write or the commit raises, or the
\* worker is killed: the except branch sleeps and the loop retries
SignalsFail ==
    /\ sig.pc = "open"
    /\ signal_events' = SignalsAfterRollback(signal_events, sig.pending, sig.ts)
    /\ sig.backoff_attempt < MaxAttempt
    /\ sig' = [SigIdle EXCEPT !.backoff_attempt = sig.backoff_attempt + 1]
    /\ UNCHANGED <<now, trades, alerts, wallet_stats, trade_cursor,
                   signal_cursor, scoring_cursor, notifier_cursor, ing, sco,
                   emit_count, evaluated, pass_log, replay_log, notif, fav, loop>>

\* the same step over a store that holds longer runs of trades: the batch
\* takes every trade after the cursor, up to ENGINE_BATCH_SIZE
EngineBegin ==
    /\ sig.pc = "idle"
    /\ \E batch \in FetchTrades(trades, signal_cursor, ENGINE_BATCH_SIZE) :
           /\ batch # <<>>
           /\ sig' = [pc |-> "open",
                       batch |-> [i \in 1..Len(batch) |-> batch[i].id],
                       pending |-> Evaluate(trades, wallet_stats, batch),
                       latest_at |-> batch[Len(batch)].traded_at,
                       ts |-> now,
                       backoff_attempt |-> sig.backoff_attempt]
    /\ UNCHANGED <<now, trades, signal_events, alerts, wallet_stats,
                   trade_cursor, signal_cursor, scoring_cursor,
                   notifier_cursor, ing, sco, emit_count, evaluated,
                   pass_log, replay_log, notif, fav, loop>>

(* ---------------------------------------------------------------------- *)
(* Scoring aggregator (services/scoring/aggregator.py)                     *)
(* ---------------------------------------------------------------------- *)

\* self.weights, in halves; an unknown type weighs 1.0
Weight(signal_type) ==
    CASE signal_type = "FRESH_WALLET_BIG_SIZE" -> 10
      [] signal_type = "LOW_ACTIVITY_WALLET_BIG_SIZE" -> 6
      [] signal_type = "REPEAT_ENTRIES" -> 4
      [] signal_type = "THIN_MARKET_IMPACT" -> 8
      [] signal_type = "CLUSTERING" -> 7
      [] signal_type = "EARLY_POSITIONING" -> 12
      [] OTHER -> 2

\* _severity_multiplier, in halves; an unknown severity multiplies by 1.0
SeverityMultiplier(severity) ==
    CASE severity = "high" -> 4
      [] severity = "medium" -> 2
      [] severity = "low" -> 1
      [] OTHER -> 2

\* _score_signal, in quarters
ScoreSignal(s) == Weight(s.signal_type) * SeverityMultiplier(s.severity)

\* a buggy score: the bonus is paid for every distinct type, the first one
\* included
ComputeGroupScoreBonusEveryType(items) ==
    LET base == SumSeq([i \in 1..Len(items) |-> ScoreSignal(items[i])])
        distinct_types == { items[i].signal_type : i \in 1..Len(items) }
    IN  base + bonus_per_extra_type * Cardinality(distinct_types)

\* _compute_group_score, in quarters
ComputeGroupScore(items) ==
    LET base == SumSeq([i \in 1..Len(items) |-> ScoreSignal(items[i])])
        distinct_types == { items[i].signal_type : i \in 1..Len(items) }
        bonus == bonus_per_extra_type * Max(Cardinality(distinct_types) - 1, 0)
    IN  base + bonus

\* _status_for_score
StatusForScore(score) == IF score >= high_threshold THEN "high" ELSE "watch"

\* a buggy window: only observed_at is compared with the cutoff
InWindowObservedOnly(s, current_time) == s.observed_at >= current_time - WINDOW

\* the WHERE clause of aggregate: observed_at or created_at within the window
InWindow(s, current_time) ==
    \/ s.observed_at >= current_time - WINDOW
    \/ s.created_at >= current_time - WINDOW

\* _group_signals: the (market_id, side) keys in order of first appearance
RECURSIVE GroupKeys(_)
GroupKeys(signals) ==
    IF signals = <<>> THEN <<>>
    ELSE LET rest == GroupKeys(SubSeq(signals, 1, Len(signals) - 1))
             last == signals[Len(signals)]
             key == <<last.market_id, last.side>>
         IN  IF key \in Range(rest) THEN rest ELSE Append(rest, key)

\* a buggy aggregate: the groups below watch_threshold are kept
AggregateKeepsAll(events, current_time) ==
    LET signals == SelectSeq(events, LAMBDA s : InWindow(s, current_time))
        keys == GroupKeys(signals)
        Items(k) == SelectSeq(signals, LAMBDA s : <<s.market_id, s.side>> = k)
    IN  [i \in 1..Len(keys) |->
            [market_id |-> keys[i][1], side |-> keys[i][2],
             score |-> ComputeGroupScore(Items(keys[i])),
             status |-> StatusForScore(ComputeGroupScore(Items(keys[i])))]]

\* aggregate: one AggregatedSignals per group that reaches watch_threshold
Aggregate(events, current_time) ==
    LET signals == SelectSeq(events, LAMBDA s : InWindow(s, current_time))
        keys == GroupKeys(signals)
        Items(k) == SelectSeq(signals, LAMBDA s : <<s.market_id, s.side>> = k)
        kept == SelectSeq(keys, LAMBDA k :
                    ComputeGroupScore(Items(k)) >= watch_threshold)
    IN  [i \in 1..Len(kept) |->
            [market_id |-> kept[i][1], side |-> kept[i][2],
             score |-> ComputeGroupScore(Items(kept[i])),
             status |-> StatusForScore(ComputeGroupScore(Items(kept[i])))]]

AlertIndex(table, agg) ==
    { i \in 1..Len(table) :
        /\ table[i].market_id = agg.market_id
        /\ table[i].side = agg.side
        /\ table[i].event_type = "scoring" }

NewAlert(table, agg, ts) ==
    [id |-> Len(table) + 1, market_id |-> agg.market_id, side |-> agg.side,
     event_type |-> "scoring", status |-> agg.status, score |-> agg.score,
     updated_at |-> ts]

\* a buggy upsert: a plain INSERT, without the ON CONFLICT clause
RECURSIVE UpsertAlertsInsertOnly(_, _, _)
UpsertAlertsInsertOnly(table, aggregates, ts) ==
    IF aggregates = <<>> THEN table
    ELSE UpsertAlertsInsertOnly(
             Append(table, NewAlert(table, Head(aggregates), ts)),
             Tail(aggregates), ts)

\* upsert_alerts: INSERT ... ON CONFLICT (market_id, side, event_type) DO
\* UPDATE SET status, score, why_json, message.  The SET list carries no
\* updated_at, and neither the model's onupdate nor the migrations' marker
\* server_onupdate acts on this statement, so a row that is updated keeps its
\* updated_at; an inserted row takes now() of the transaction.
RECURSIVE UpsertAlerts(_, _, _)
UpsertAlerts(table, aggregates, ts) ==
    IF aggregates = <<>> THEN table
    ELSE LET agg == Head(aggregates)
             hit == AlertIndex(table, agg)
         IN  UpsertAlerts(
                 IF hit = {}
                 THEN Append(table, NewAlert(table, agg, ts))
                 ELSE [i \in 1..Len(table) |->
                          IF i \in hit
                          THEN [table[i] EXCEPT !.status = agg.status,
                                                !.score = agg.score]
                          ELSE table[i]],
                 Tail(aggregates), ts)

\* a buggy pass: the alerts that the pass does not derive are dropped
ProcessDroppingStale(table, events, current_time, ts) ==
    UpsertAlerts(SelectSeq(table, LAMBDA r :
                     \E i \in 1..Len(Aggregate(events, current_time)) :
                         /\ Aggregate(events, current_time)[i].market_id = r.market_id
                         /\ Aggregate(events, current_time)[i].side = r.side),
                 Aggregate(events, current_time), ts)

\* a buggy pass: only the signals after the scoring cursor are aggregated
ProcessAfterCursor(table, events, current_time, ts) ==
    UpsertAlerts(table,
                 Aggregate(SelectSeq(events, LAMBDA e :
                               scoring_cursor = None \/ e.id > scoring_cursor),
                           current_time),
                 ts)

\* process
Process(table, events, current_time, ts) ==
    UpsertAlerts(table, Aggregate(events, current_time), ts)

\* what the idempotence laws compare: the rows with their status and score
AlertView(table) ==
    { [id |-> table[i].id, market_id |-> table[i].market_id,
       side |-> table[i].side, status |-> table[i].status,
       score |-> table[i].score] : i \in 1..Len(table) }

(* ---------------------------------------------------------------------- *)
(* Scoring worker (services/scoring/worker.py)                             *)
(* ---------------------------------------------------------------------- *)
Scorers == {1, 2}

\* _has_new_signals: max(id) of the signals after the cursor, None if none
HasNewSignals(events, cursor) ==
    IF Len(events) > 0 /\ (cursor = None \/ Len(events) > cursor)
    THEN Len(events) ELSE None

\* run_worker: _load_cursor and _has_new_signals; the transaction is open
\* and now() is fixed for it.  Without a newer signal the iteration raises
\* StopIteration and changes nothing.
ScoringBegin(w) ==
    /\ sco[w].pc = "idle"
    /\ HasNewSignals(signal_events, scoring_cursor) # None
    /\ sco' = [sco EXCEPT ![w] =
                  [pc |-> "open",
                   max_new_id |-> HasNewSignals(signal_events, scoring_cursor),
                   ts |-> now]]
    /\ UNCHANGED <<now, trades, signal_events, alerts, wallet_stats,
                   trade_cursor, signal_cursor, scoring_cursor,
                   notifier_cursor, ing, sig, emit_count, evaluated, pass_log,
                   replay_log, notif, fav, loop>>

ScoIdle == [pc |-> "idle", max_new_id |-> None, ts |-> None]

InWindowIds(events, current_time) ==
    { i \in 1..Len(events) : InWindow(events[i], current_time) }

\* run_worker: aggregator.process, _store_cursor and the commit.  The clock
\* moves on, so the worker's next transaction has a later now().
ScoringFinish(w) ==
    /\ sco[w].pc = "open"
    /\ alerts' = Process(alerts, signal_events, now, sco[w].ts)
    /\ scoring_cursor' = sco[w].max_new_id
    /\ sco' = [sco EXCEPT ![w] = ScoIdle]
    /\ now' = now + 1
    /\ pass_log' = [seen |-> Len(signal_events),
                    inwin |-> InWindowIds(signal_events, now),
                    same_signals |-> pass_log.seen = Len(signal_events),
                    same_window |-> pass_log.inwin = InWindowIds(signal_events, now),
                    changed |-> AlertView(alerts') # AlertView(alerts),
                    rederived |->
                        \E i \in 1..Len(Aggregate(signal_events, now)) :
                            AlertIndex(alerts, Aggregate(signal_events, now)[i]) # {}]
    /\ UNCHANGED <<trades, signal_events, wallet_stats, trade_cursor,
                   signal_cursor, notifier_cursor, ing, sig, emit_count,
                   evaluated, replay_log, notif, fav, loop>>

\* the iteration raises (or the worker is killed) before the commit
ScoringFail(w) ==
    /\ sco[w].pc = "open"
    /\ sco' = [sco EXCEPT ![w] = ScoIdle]
    /\ UNCHANGED <<now, trades, signal_events, alerts, wallet_stats,
                   trade_cursor, signal_cursor, scoring_cursor,
                   notifier_cursor, ing, sig, emit_count, evaluated, pass_log,
                   replay_log, notif, fav, loop>>

\* the signals a committed batch of the signals worker may add for a trade
\* made now: (market, side, type, severity)
SignalKinds ==
    { <<1, "buy", "FRESH_WALLET_BIG_SIZE", "high">>,
      <<1, "buy", "CLUSTERING", "medium">>,
      <<1, "buy", "REPEAT_ENTRIES", "medium">>,
      <<2, "sell", "EARLY_POSITIONING", "medium">> }

\* _insert_signals and its commit, for one signal of a trade made now
InsertSignal(k) ==
    /\ Len(signal_events) < MaxSignals
    /\ signal_events' =
           SignalRows(signal_events,
                      <<Signal([market_id |-> k[1], wallet_address |-> "w1",
                                side |-> k[2], traded_at |-> now],
                               k[3], k[4], 1)>>,
                      now)
    /\ UNCHANGED <<now, trades, alerts, wallet_stats, trade_cursor,
                   signal_cursor, scoring_cursor, notifier_cursor, ing, sig,
                   sco, emit_count, evaluated, pass_log, replay_log, notif,
                   fav, loop>>

(* ---------------------------------------------------------------------- *)
(* Notifier (services/notifier/worker.py)                                  *)
(* ---------------------------------------------------------------------- *)
\* the updated_at column of rows
UpdatedAt(rows) == [i \in 1..Len(rows) |-> rows[i].updated_at]

\* the alerts strictly after the cursor, or all without a cursor
AlertsAfter(table, cursor) ==
    SelectSeq(table, LAMBDA a : cursor = None \/ a.updated_at > cursor)

\* the alert query of run_notifier: ORDER BY updated_at LIMIT 50, strictly
\* after the cursor when there is one; the results the query may return
NotifierRows(table, cursor) ==
    { FirstN(rows, NOTIFIER_LIMIT) :
        rows \in OrderedBy(AlertsAfter(table, cursor),
                           UpdatedAt(AlertsAfter(table, cursor))) }

\* latest_ts after the loop over rows
RECURSIVE LatestTs(_, _)
LatestTs(latest_ts, rows) ==
    IF rows = <<>> THEN latest_ts
    ELSE LatestTs(IF latest_ts = None THEN Head(rows).updated_at
                  ELSE Max(latest_ts, Head(rows).updated_at),
                  Tail(rows))

EmitOf(id) == IF id <= Len(emit_count) THEN emit_count[id] ELSE 0

\* _send for the first k rows whose status is watch or high
Emitted(rows, k) ==
    [i \in 1..Max(Len(alerts), Len(emit_count)) |->
        IF \E j \in 1..k : rows[j].id = i /\ rows[j].status \in {"watch", "high"}
        THEN Min(EmitOf(i) + 1, MaxEmit)
        ELSE EmitOf(i)]

\* the dry_run argument of every _send: messages are only logged
DryRun(cfg) == cfg.notifier_dry_run \/ cfg.telegram_chat_id = ""

\* run_notifier before its loop: without a bot token ("" for unset, or the
\* default "CHANGEME") it raises RuntimeError and the process ends
NotifierStart ==
    /\ notif.pc = "start"
    /\ notif' = [notif EXCEPT !.pc =
                    IF notif.telegram_bot_token \in {"", "CHANGEME"}
                    THEN "stopped" ELSE "running"]
    /\ UNCHANGED <<now, trades, signal_events, alerts, wallet_stats,
                   trade_cursor, signal_cursor, scoring_cursor,
                   notifier_cursor, ing, sig, sco, emit_count, evaluated,
                   pass_log, replay_log, fav, loop>>

\* one iteration that commits: every row is handled, then the cursor is
\* stored.  Without rows the iteration raises StopIteration.
NotifierIteration ==
    /\ notif.pc = "running"
    /\ \E rows \in NotifierRows(alerts, notifier_cursor) :
           /\ rows # <<>>
           /\ emit_count' = Emitted(rows, Len(rows))
           /\ notifier_cursor' = LatestTs(notifier_cursor, rows)
    /\ UNCHANGED <<now, trades, signal_events, alerts, wallet_stats,
                   trade_cursor, signal_cursor, scoring_cursor, ing, sig, sco,
                   evaluated, pass_log, replay_log, notif, fav, loop>>

\* one iteration that raises after k messages were sent: the transaction is
\* rolled back, the messages are not
NotifierFail(k) ==
    /\ notif.pc = "running"
    /\ \E rows \in NotifierRows(alerts, notifier_cursor) :
           /\ k \in 1..Len(rows)
           /\ emit_count' = Emitted(rows, k)
    /\ emit_count' # emit_count
    /\ UNCHANGED <<now, trades, signal_events, alerts, wallet_stats,
                   trade_cursor, signal_cursor, scoring_cursor,
                   notifier_cursor, ing, sig, sco, evaluated, pass_log,
                   replay_log, notif, fav, loop>>

(* ---------------------------------------------------------------------- *)
(* Replay (tests/test_replay.py, run_once)                                 *)
(* ---------------------------------------------------------------------- *)
NoReplay == [runs |-> 0, at |-> None, trades |-> <<>>,
             stats |-> <<>>, same_inputs |-> FALSE,
             elapsed |-> 0, prev |-> None, last |-> None]

\* what run_once returns, with the (status, score) of every alert
ReplayResult(signals, table) ==
    [signals |-> Len(signals),
     alerts |-> { [market_id |-> table[i].market_id, side |-> table[i].side,
                   status |-> table[i].status, score |-> table[i].score] :
                  i \in 1..Len(table) }]

\* run_once: delete the derived tables, evaluate every trade in traded_at
\* order, store the signals (created_at from the server default) and run
\* the aggregator at the current time
ReplayRunOnce ==
    LET signals == Evaluate(trades, wallet_stats, SortByTradedAt(trades))
        events == SignalRows(<<>>, signals, now)
        table == Process(<<>>, events, now, now)
    IN  /\ ing.pc = "idle" /\ sig.pc = "idle"
        /\ signal_events' = events
        /\ alerts' = table
        /\ replay_log' =
               [runs |-> Min(replay_log.runs + 1, 2),
                at |-> now,
                trades |-> trades,
                stats |-> wallet_stats,
                same_inputs |-> /\ replay_log.runs > 0
                                /\ replay_log.trades = trades
                                /\ replay_log.stats = wallet_stats,
                elapsed |-> IF replay_log.runs > 0 THEN now - replay_log.at ELSE 0,
                prev |-> replay_log.last,
                last |-> ReplayResult(signals, table)]
        /\ UNCHANGED <<now, trades, wallet_stats, trade_cursor, signal_cursor,
                       scoring_cursor, notifier_cursor, ing, sig, sco,
                       emit_count, evaluated, pass_log, notif, fav, loop>>

(* ---------------------------------------------------------------------- *)
(* Wallet profiler (services/profiling/accuracy.py, worker.py)             *)
(* ---------------------------------------------------------------------- *)
MIN_FAVORABLE_DELTA == 5
MIN_EVALUATED_TRADES == 5
MIN_NOTIONAL_THRESHOLD == 100
PRICE_TOLERANCE == 5
HORIZON_15M == 15
HORIZON_1H == 60
HORIZON_4H == 240
PROFILING_WINDOW == 1440
PROFILING_BATCH_SIZE == 100

\* a buggy comparison: a sell must fall by more than MIN_FAVORABLE_DELTA
IsFavorableMoveStrictSell(side, entry_price, later_price) ==
    IF later_price = None THEN FALSE
    ELSE IF side = "buy"
         THEN later_price - entry_price >= MIN_FAVORABLE_DELTA
         ELSE later_price - entry_price < -MIN_FAVORABLE_DELTA

\* is_favorable_move: up by MIN_FAVORABLE_DELTA for a buy, down by it for
\* anything else
IsFavorableMove(side, entry_price, later_price) ==
    IF later_price = None THEN FALSE
    ELSE IF side = "buy"
         THEN later_price - entry_price >= MIN_FAVORABLE_DELTA
         ELSE later_price - entry_price <= -MIN_FAVORABLE_DELTA

\* calculate_delta: the move in the position's favour, None without a
\* later price
CalculateDelta(side, entry_price, later_price) ==
    IF later_price = None THEN None
    ELSE IF side = "buy"
         THEN later_price - entry_price
         ELSE -(later_price - entry_price)

NoCall == [pc |-> "none", entry_price |-> 0, later_price |-> 0,
           sell |-> FALSE, buy |-> FALSE]

\* is_favorable_move called for a sell with later price p1 and for a buy
\* with the mirrored later price 2 * p0 - p1 (which may lie outside [0, 1];
\* at -0.01 it coincides with the code of None, where both the call and the
\* comparison give False)
FavorableCalls ==
    /\ fav.pc = "args"
    /\ fav' = [fav EXCEPT
                 !.pc = "done",
                 !.sell = IsFavorableMove("sell", fav.entry_price, fav.later_price),
                 !.buy = IsFavorableMove("buy", fav.entry_price,
                                         2 * fav.entry_price - fav.later_price)]
    /\ UNCHANGED <<now, trades, signal_events, alerts, wallet_stats,
                   trade_cursor, signal_cursor, scoring_cursor,
                   notifier_cursor, ing, sig, sco, emit_count, evaluated,
                   pass_log, replay_log, notif, loop>>

\* get_price_at_time: the price of the market's trade closest to target_time
\* within the tolerance, None without one; ORDER BY abs(...) LIMIT 1 may
\* return any of the closest trades
GetPriceAtTime(store, market_id, target_time) ==
    LET near == { i \in 1..Len(store) :
                    /\ store[i].market_id = market_id
                    /\ store[i].traded_at >= target_time - PRICE_TOLERANCE
                    /\ store[i].traded_at <= target_time + PRICE_TOLERANCE }
        closest == { i \in near : \A j \in near :
                        Abs(store[i].traded_at - target_time)
                            <= Abs(store[j].traded_at - target_time) }
    IN  IF near = {} THEN {None} ELSE { store[i].price : i \in closest }

\* "is_favorable_move(...) if price else False": a price of zero is falsy
CorrectAt(t, price) ==
    price # None /\ price # 0 /\ IsFavorableMove(t.side, t.price, price)

\* evaluate_trade: the outcomes it may return for one trade; none when the
\* notional is below min_notional
EvaluateTradeOutcome(store, t) ==
    IF Notional(t.shares, t.price) < MIN_NOTIONAL_THRESHOLD * PriceScale
    THEN {}
    ELSE { [wallet_address |-> t.wallet_address,
            correct_15m |-> CorrectAt(t, p15),
            correct_1h |-> CorrectAt(t, p1h),
            correct_4h |-> CorrectAt(t, p4h)] :
             p15 \in GetPriceAtTime(store, t.market_id, t.traded_at + HORIZON_15M),
             p1h \in GetPriceAtTime(store, t.market_id, t.traded_at + HORIZON_1H),
             p4h \in GetPriceAtTime(store, t.market_id, t.traded_at + HORIZON_4H) }

\* process_backfill's loop: the outcome lists it may collect for rows
RECURSIVE Outcomes(_, _)
Outcomes(store, rows) ==
    IF rows = <<>> THEN { <<>> }
    ELSE IF EvaluateTradeOutcome(store, Head(rows)) = {}
         THEN Outcomes(store, Tail(rows))
         ELSE { <<o>> \o rest :
                  o \in EvaluateTradeOutcome(store, Head(rows)),
                  rest \in Outcomes(store, Tail(rows)) }

\* process_backfill's query: the trades of the last 24 hours, latest first
\* (trades of equal traded_at in either order: the pass's result does not
\* depend on it while the limit is not reached)
RecentTrades(store, cutoff) ==
    LET rows == SortByTradedAt(SelectSeq(store, LAMBDA r : r.traded_at >= cutoff))
    IN  FirstN([i \in 1..Len(rows) |-> rows[Len(rows) + 1 - i]],
               PROFILING_BATCH_SIZE)

\* update_wallet_stats: wallet_data[wallet] after the loop over the outcomes
WalletData(outcomes, w) ==
    LET mine == SelectSeq(outcomes, LAMBDA o : o.wallet_address = w)
    IN  [total_trades |-> Len(mine),
         evaluated_trades |-> Len(mine),
         correct_15m |-> Len(SelectSeq(mine, LAMBDA o : o.correct_15m)),
         correct_1h |-> Len(SelectSeq(mine, LAMBDA o : o.correct_1h)),
         correct_4h |-> Len(SelectSeq(mine, LAMBDA o : o.correct_4h))]

\* compute_accuracy_score, as stored in Numeric(5, 4): ten-thousandths,
\* rounded half up; None below min_evaluated_trades
ComputeAccuracyScore(data) ==
    IF data.evaluated_trades < MIN_EVALUATED_TRADES THEN None
    ELSE LET weighted == 2 * data.correct_15m + 3 * data.correct_1h
                           + 5 * data.correct_4h
         IN  (2 * 1000 * weighted + data.evaluated_trades)
                 \div (2 * data.evaluated_trades)

\* update_wallet_stats: INSERT ... ON CONFLICT (wallet_address) DO UPDATE.
\* A new row takes the batch's counters and the accuracy computed from them;
\* an existing row has the batch's counters added, and its accuracy_score is
\* not in the SET list.
UpdateWalletStats(table, outcomes) ==
    [w \in DOMAIN table |->
        LET data == WalletData(outcomes, w)
        IN  IF data.total_trades = 0 THEN table[w]
            ELSE IF ~table[w].present
            THEN [present |-> TRUE,
                  total_trades |-> data.total_trades,
                  evaluated_trades |-> data.evaluated_trades,
                  correct_15m |-> data.correct_15m,
                  correct_1h |-> data.correct_1h,
                  correct_4h |-> data.correct_4h,
                  accuracy_score |-> ComputeAccuracyScore(data)]
            ELSE [table[w] EXCEPT
                    !.total_trades = @ + data.total_trades,
                    !.evaluated_trades = @ + data.evaluated_trades,
                    !.correct_15m = @ + data.correct_15m,
                    !.correct_1h = @ + data.correct_1h,
                    !.correct_4h = @ + data.correct_4h]]

\* one iteration of the profiling worker: process_backfill inside one
\* transaction.  Without trades or outcomes nothing is written.
ProcessBackfill ==
    /\ \E outcomes \in Outcomes(trades, RecentTrades(trades, now - PROFILING_WINDOW)) :
           /\ outcomes # <<>>
           /\ wallet_stats' = UpdateWalletStats(wallet_stats, outcomes)
    /\ \A w \in Wallets : wallet_stats'[w].evaluated_trades <= MaxEvaluated
    /\ UNCHANGED <<now, trades, signal_events, alerts, trade_cursor,
                   signal_cursor, scoring_cursor, notifier_cursor, ing, sig,
                   sco, emit_count, evaluated, pass_log, replay_log, notif,
                   fav, loop>>

\* later entries of the feed: trades after the first ones, which give the
\* first ones a price to be measured against
LateFeedTrades ==
    { FeedTrade(1, "w2", "buy", 2000, 66, 26, "h5"),
      FeedTrade(1, "w1", "buy", 1, 50, 27, "") }

LatePages(m) ==
    UNION { [1..n -> { t \in LateFeedTrades : t.market_external_id = m }] :
              n \in 1..MaxPage }

\* a poll that returns trades made since the first polls
LatePolls ==
    \E m \in Markets : \E page \in LatePages(m) :
        /\ LatestAt(page) <= now
        /\ PollMarketTrades(m, page)

(* ---------------------------------------------------------------------- *)
(* Time, initial state, specifications                                     *)
(* ---------------------------------------------------------------------- *)

\* time passes: a little more than half the aggregation window
Tick ==
    /\ now + WINDOW \div 2 + 1 <= MaxNow
    /\ now' = now + WINDOW \div 2 + 1
    /\ UNCHANGED <<trades, signal_events, alerts, wallet_stats, trade_cursor,
                   signal_cursor, scoring_cursor, notifier_cursor, ing, sig,
                   sco, emit_count, evaluated, pass_log, replay_log, notif,
                   fav, loop>>

NoStats == [present |-> FALSE, total_trades |-> 0, evaluated_trades |-> 0,
            correct_15m |-> 0, correct_1h |-> 0, correct_4h |-> 0,
            accuracy_score |-> None]

(* ---------------------------------------------------------------------- *)
(* The run loops of the workers: backoff and the ingestion poll schedule   *)
(* ---------------------------------------------------------------------- *)

\* no run loop under observation
NoLoop == [worker |-> "none", backoff_attempt |-> 0, backoff |-> None,
           failures |-> 0, last |-> "start", refresh_due |-> TRUE,
           active |-> {}, poll_schedule |-> [m \in Markets |-> 0],
           status |-> [m \in Markets |-> None]]

\* "backoff = min(MAX, BASE * (2**backoff_attempt)); backoff_attempt += 1;
\* time.sleep(backoff)"; failures counts the iterations that raised since
\* the last one that did not
Backoff(l, base, max_backoff) ==
    [l EXCEPT !.backoff = Min(max_backoff, base * 2^(l.backoff_attempt)),
              !.backoff_attempt = @ + 1,
              !.failures = @ + 1,
              !.last = "raised"]

\* an iteration of the signals worker's loop: an empty fetch resets the
\* counter before StopIteration is raised, a committed batch resets it after
\* the transaction, anything else raised backs off
SignalsRunWorker(outcome) ==
    /\ loop.worker = "signals"
    /\ \/ /\ outcome = "idle"
          /\ loop' = [loop EXCEPT !.backoff_attempt = 0, !.backoff = None,
                                  !.failures = 0, !.last = "idle"]
       \/ /\ outcome = "ok"
          /\ loop' = [loop EXCEPT !.backoff_attempt = 0, !.backoff = None,
                                  !.failures = 0, !.last = "ok"]
       \/ /\ outcome = "raise"
          /\ loop.backoff_attempt < MaxFailures
          /\ loop' = Backoff(loop, BACKOFF_BASE_SECONDS,
                             SIGNALS_BACKOFF_MAX_SECONDS)
    /\ UNCHANGED <<now, trades, signal_events, alerts, wallet_stats,
                   trade_cursor, signal_cursor, scoring_cursor,
                   notifier_cursor, ing, sig, sco, emit_count, evaluated,
                   pass_log, replay_log, notif, fav>>

\* an iteration of the scoring worker's loop: without new signals
\* StopIteration goes to "sleep; continue" and the counter stays; a
\* committed pass resets it
ScoringRunWorker(outcome) ==
    /\ loop.worker = "scoring"
    /\ \/ /\ outcome = "idle"
          /\ loop' = [loop EXCEPT !.backoff = None, !.failures = 0,
                                  !.last = "idle"]
       \/ /\ outcome = "ok"
          /\ loop' = [loop EXCEPT !.backoff_attempt = 0, !.backoff = None,
                                  !.failures = 0, !.last = "ok"]
       \/ /\ outcome = "raise"
          /\ loop.backoff_attempt < MaxFailures
          /\ loop' = Backoff(loop, BACKOFF_BASE_SECONDS,
                             SCORING_BACKOFF_MAX_SECONDS)
    /\ UNCHANGED <<now, trades, signal_events, alerts, wallet_stats,
                   trade_cursor, signal_cursor, scoring_cursor,
                   notifier_cursor, ing, sig, sco, emit_count, evaluated,
                   pass_log, replay_log, notif, fav>>

\* an iteration of run_notifier's loop: without rows StopIteration goes to
\* "sleep; continue" and the counter stays; a committed batch resets it
RunNotifier(outcome) ==
    /\ loop.worker = "notifier"
    /\ \/ /\ outcome = "idle"
          /\ loop' = [loop EXCEPT !.backoff = None, !.failures = 0,
                                  !.last = "idle"]
       \/ /\ outcome = "ok"
          /\ loop' = [loop EXCEPT !.backoff_attempt = 0, !.backoff = None,
                                  !.failures = 0, !.last = "ok"]
       \/ /\ outcome = "raise"
          /\ loop.backoff_attempt < MaxFailures
          /\ loop' = Backoff(loop, BACKOFF_BASE_SECONDS,
                             NOTIFIER_BACKOFF_MAX_SECONDS)
    /\ UNCHANGED <<now, trades, signal_events, alerts, wallet_stats,
                   trade_cursor, signal_cursor, scoring_cursor,
                   notifier_cursor, ing, sig, sco, emit_count, evaluated,
                   pass_log, replay_log, notif, fav>>

\* a poll that stores latest_at whatever it is: after a 404 the cursor is
\* overwritten with None
PollResponseStoresNone(st, m, resp) ==
    CASE resp.status \in {200, 404} ->
            [st EXCEPT !.trades = InsertTradeRows(st.trades, resp.page),
                       !.cursor[m] = LatestAt(resp.page),
                       !.status[m] = resp.status]
      [] OTHER -> [st EXCEPT !.status[m] = resp.status,
                             !.raised = @ \cup {m}]

\* poll_market_trades on a store and the cursors under a response of the
\* endpoint: fetch_recent_trades returns [] on 404, raise_for_status raises
\* on any other non-2xx, and a page goes through insert_trades and
\* "if latest_at: _store_cursor"
PollResponse(st, m, resp) ==
    CASE resp.status = 404 -> [st EXCEPT !.status[m] = 404]
      [] resp.status = 200 ->
            [st EXCEPT !.trades = InsertTradeRows(st.trades, resp.page),
                       !.cursor[m] = IF LatestAt(resp.page) # None
                                     THEN LatestAt(resp.page) ELSE @,
                       !.status[m] = 200]
      [] OTHER -> [st EXCEPT !.status[m] = resp.status,
                             !.raised = @ \cup {m}]

\* a loop that lets the exception of a poll through: the markets after the
\* failed one are not polled
RECURSIVE PollDueUntilRaise(_, _, _)
PollDueUntilRaise(st, order, resp) ==
    IF order = <<>> \/ st.raised # {} THEN st
    ELSE PollDueUntilRaise(PollResponse(st, Head(order), resp[Head(order)]),
                           Tail(order), resp)

\* "for market in active_markets": the due markets polled one after the
\* other, an exception of one poll caught inside the loop
RECURSIVE PollDue(_, _, _)
PollDue(st, order, resp) ==
    IF order = <<>> THEN st
    ELSE PollDue(PollResponse(st, Head(order), resp[Head(order)]),
                 Tail(order), resp)

\* an iteration of the ingestion worker's loop: refresh is what the refresh
\* of the markets comes to (not due, raises, or the active markets found),
\* resp what the endpoint answers for each market, next the random.uniform
\* draw of its next poll; the due markets are iterated in any order
RunWorker(refresh, resp, next) ==
    /\ loop.worker = "ingestion"
    /\ refresh.result = "skip" <=> ~loop.refresh_due
    /\ IF refresh.result = "raise"
       THEN /\ loop.backoff_attempt < MaxFailures
            /\ loop' = [Backoff(loop, ingestion_backoff_base_seconds,
                                ingestion_backoff_max_seconds)
                          EXCEPT !.status = [m \in Markets |-> None]]
            /\ UNCHANGED <<trades, trade_cursor, evaluated>>
       ELSE LET active == IF refresh.result = "skip" THEN loop.active
                          ELSE refresh.active
                schedule == [m \in Markets |->
                                IF m \in loop.active \cap active
                                THEN loop.poll_schedule[m] ELSE 0]
                due == { m \in active : schedule[m] = 0 }
            IN  IF active = {}
                THEN /\ loop' = [loop EXCEPT !.backoff = None,
                                             !.failures = 0,
                                             !.last = "idle",
                                             !.refresh_due = FALSE,
                                             !.active = {},
                                             !.poll_schedule = schedule,
                                             !.status = [m \in Markets |-> None]]
                     /\ UNCHANGED <<trades, trade_cursor, evaluated>>
                ELSE \E order \in { o \in [1..Cardinality(due) -> due] :
                                       \A i, j \in 1..Len(o) :
                                           i # j => o[i] # o[j] } :
                       LET st == PollDue([trades |-> trades,
                                          cursor |-> trade_cursor,
                                          status |-> [m \in Markets |-> None],
                                          raised |-> {}],
                                         order, resp)
                       IN  /\ Len(st.trades) <= MaxTrades
                           /\ trades' = st.trades
                           /\ trade_cursor' = st.cursor
                           /\ evaluated' =
                                  [i \in 1..Len(st.trades) |->
                                      IF i <= Len(trades) THEN evaluated[i]
                                      ELSE 0]
                           /\ loop' = [loop EXCEPT
                                  !.backoff_attempt = 0,
                                  !.backoff = None,
                                  !.failures = 0,
                                  !.last = "ok",
                                  !.refresh_due = FALSE,
                                  !.active = active,
                                  !.poll_schedule =
                                      [m \in Markets |->
                                          IF m \in due THEN next[m]
                                          ELSE schedule[m]],
                                  !.status = st.status]
    /\ UNCHANGED <<now, signal_events, alerts, wallet_stats, signal_cursor,
                   scoring_cursor, notifier_cursor, ing, sig, sco, emit_count,
                   pass_log, replay_log, notif, fav>>

\* the sleep that ends an iteration: the shortest poll interval passes, and
\* the markets may fall due for a refresh
Elapse(refresh_due) ==
    /\ loop.worker = "ingestion"
    /\ loop.last \in {"ok", "idle", "raised"}
    /\ loop.refresh_due => refresh_due
    /\ loop' = [loop EXCEPT
                  !.last = "slept",
                  !.poll_schedule =
                      [m \in Markets |->
                          Max(0, @[m] - ingestion_trades_poll_interval_min_seconds)],
                  !.refresh_due = refresh_due]
    /\ UNCHANGED <<now, trades, signal_events, alerts, wallet_stats,
                   trade_cursor, signal_cursor, scoring_cursor,
                   notifier_cursor, ing, sig, sco, emit_count, evaluated,
                   pass_log, replay_log, notif, fav>>

\* the derived tables empty and the workers idle
InitIdle ==
    /\ signal_events = <<>>
    /\ alerts = <<>>
    /\ wallet_stats = [w \in Wallets |-> NoStats]
    /\ trade_cursor = [m \in Markets |-> None]
    /\ scoring_cursor = None
    /\ notifier_cursor = None
    /\ ing = IngIdle
    /\ sig = SigIdle
    /\ sco = [w \in Scorers |-> ScoIdle]
    /\ emit_count = <<>>
    /\ pass_log = [seen |-> None, inwin |-> {}, same_signals |-> FALSE,
                   same_window |-> FALSE, changed |-> FALSE,
                   rederived |-> FALSE]
    /\ replay_log = NoReplay

\* the empty store and the idle workers
InitStore ==
    /\ InitIdle
    /\ now = 12
    /\ trades = <<>>
    /\ signal_cursor = None
    /\ evaluated = <<>>

Deployed == [telegram_bot_token |-> "token", telegram_chat_id |-> "chat",
             notifier_dry_run |-> FALSE, pc |-> "running"]

\* the trades tables that polls over EngineFeed may have built
EngineStores ==
    { InsertTradeRows(<<>>, SubFeed(EngineFeed, S)) :
        S \in { T \in SUBSET (1..Len(EngineFeed)) :
                  Cardinality(T) >= 1 /\ Cardinality(T) <= MaxEngineTrades } }

\* the trades tables that polls over the quiet market's entries, none, 10
\* or 11 of them, and then over ImpactFeed may have built
ImpactStores ==
    { InsertTradeRows(<<>>, HistoryBlock(h) \o SubFeed(ImpactFeed, S)) :
        h \in {0, BASELINE_LEN, BASELINE_LEN + 1},
        S \in { T \in SUBSET (1..Len(ImpactFeed)) :
                  Cardinality(T) >= 1 /\ Cardinality(T) <= MaxEngineTrades } }

\* the trades tables that polls over ClusterFeed may have built
ClusterStores ==
    { InsertTradeRows(<<>>, SubFeed(ClusterFeed, S)) :
        S \in { T \in SUBSET (1..Len(ClusterFeed)) :
                  Cardinality(T) >= 1 /\ Cardinality(T) <= MaxEngineTrades } }

\* the signals worker about to take a batch from such a store
InitCluster ==
    /\ InitIdle
    /\ fav = NoCall
    /\ loop = NoLoop
    /\ notif = Deployed
    /\ now = 1700
    /\ trades \in ClusterStores
    /\ signal_cursor \in {None} \cup { trades[i].traded_at : i \in 1..Len(trades) }
    /\ evaluated = [i \in 1..Len(trades) |->
                       IF signal_cursor # None /\ trades[i].traded_at <= signal_cursor
                       THEN 1 ELSE 0]

\* the trades tables that polls over SmartFeed may have built
SmartStores ==
    { InsertTradeRows(<<>>, SubFeed(SmartFeed, S)) :
        S \in { T \in SUBSET (1..Len(SmartFeed)) :
                  Cardinality(T) >= 1 /\ Cardinality(T) <= MaxEngineTrades } }

\* wallet_stats rows as the table may hold them, written by the profiler or
\* seeded: below, at and above min_evaluated_trades, with accuracy_score
\* NULL, just below and at 0.60, just below and at 0.75
SmartRows ==
    { [NoStats EXCEPT !.present = TRUE, !.total_trades = e,
                      !.evaluated_trades = e, !.accuracy_score = a] :
        e \in {4, 5, 15}, a \in {None, 5999, 6000, 7499, 7500} }

\* the signals worker about to take a batch from such a store, w1 having
\* any of these rows or none, w2 a row of accuracy 0.65 or none, w3 none
InitSmart ==
    /\ signal_events = <<>>
    /\ alerts = <<>>
    /\ wallet_stats \in
           { [w \in Wallets |->
                 IF w = "w1" THEN r1 ELSE IF w = "w2" THEN r2 ELSE NoStats] :
               r1 \in SmartRows \cup {NoStats},
               r2 \in { NoStats,
                        [NoStats EXCEPT !.present = TRUE, !.total_trades = 5,
                                        !.evaluated_trades = 5,
                                        !.accuracy_score = 6500] } }
    /\ trade_cursor = [m \in Markets |-> None]
    /\ scoring_cursor = None
    /\ notifier_cursor = None
    /\ ing = IngIdle
    /\ sig = SigIdle
    /\ sco = [w \in Scorers |-> ScoIdle]
    /\ emit_count = <<>>
    /\ pass_log = [seen |-> None, inwin |-> {}, same_signals |-> FALSE,
                   same_window |-> FALSE, changed |-> FALSE,
                   rederived |-> FALSE]
    /\ replay_log = NoReplay
    /\ notif = Deployed
    /\ fav = NoCall
    /\ loop = NoLoop
    /\ now = 1700
    /\ trades \in SmartStores
    /\ signal_cursor \in {None} \cup { trades[i].traded_at : i \in 1..Len(trades) }
    /\ evaluated = [i \in 1..Len(trades) |->
                       IF signal_cursor # None /\ trades[i].traded_at <= signal_cursor
                       THEN 1 ELSE 0]

\* the trades tables that polls over HorizonFeed may have built
HorizonStores ==
    { InsertTradeRows(<<>>, SubFeed(HorizonFeed, S)) :
        S \in { T \in SUBSET (1..Len(HorizonFeed)) :
                  Cardinality(T) >= 1 /\ Cardinality(T) <= MaxEngineTrades } }

\* the profiling worker about to run over such a store, five hours after
\* its first trade
InitHorizon ==
    /\ InitIdle
    /\ notif = Deployed
    /\ fav = NoCall
    /\ loop = NoLoop
    /\ now = 300
    /\ trades \in HorizonStores
    /\ signal_cursor = None
    /\ evaluated = [i \in 1..Len(trades) |-> 0]

\* the signals worker about to take a batch from such a store; the quiet
\* market's earlier entries were evaluated by earlier batches
InitImpact ==
    /\ InitIdle
    /\ fav = NoCall
    /\ loop = NoLoop
    /\ notif = Deployed
    /\ now = 1700
    /\ trades \in ImpactStores
    /\ signal_cursor \in
           { c \in {None} \cup { trades[i].traded_at : i \in 1..Len(trades) } :
               \A i \in 1..Len(trades) :
                   trades[i].trade_hash = "" =>
                       (c # None /\ trades[i].traded_at <= c) }
    /\ evaluated = [i \in 1..Len(trades) |->
                       IF signal_cursor # None /\ trades[i].traded_at <= signal_cursor
                       THEN 1 ELSE 0]

\* the signals worker about to take a batch from a store that polls over
\* EngineFeed have built, the cursor being where an earlier batch, if any,
\* has left it: every trade up to the cursor counts as evaluated
InitEngine ==
    /\ InitIdle
    /\ fav = NoCall
    /\ loop = NoLoop
    /\ notif = Deployed
    /\ now = 1700
    /\ trades \in EngineStores
    /\ signal_cursor \in {None} \cup { trades[i].traded_at : i \in 1..Len(trades) }
    /\ evaluated = [i \in 1..Len(trades) |->
                       IF signal_cursor # None /\ trades[i].traded_at <= signal_cursor
                       THEN 1 ELSE 0]

\* the notifier as deployed: credentials set, past its start-up
Init ==
    /\ InitStore
    /\ notif = Deployed
    /\ fav = NoCall
    /\ loop = NoLoop

\* the notifier about to start, under any settings: the token unset, left
\* at its default or set, the chat id unset or set, dry-run on or off
InitConfig ==
    /\ InitStore
    /\ fav = NoCall
    /\ loop = NoLoop
    /\ notif \in [telegram_bot_token : {"", "CHANGEME", "token"},
                   telegram_chat_id : {"", "chat"},
                   notifier_dry_run : BOOLEAN,
                   pc : {"start"}]

\* the signals worker about to take a batch from a store built over
\* EngineFeed, w1 having no wallet_stats row, one below the trade count or a
\* qualifying one, w2 none or a qualifying one, w3 none
InitStats ==
    /\ signal_events = <<>>
    /\ alerts = <<>>
    /\ wallet_stats \in
           { [w \in Wallets |->
                 IF w = "w1" THEN r1 ELSE IF w = "w2" THEN r2 ELSE NoStats] :
               r1 \in { NoStats,
                        [NoStats EXCEPT !.present = TRUE, !.total_trades = 4,
                                        !.evaluated_trades = 4,
                                        !.accuracy_score = 9000],
                        [NoStats EXCEPT !.present = TRUE, !.total_trades = 5,
                                        !.evaluated_trades = 5,
                                        !.accuracy_score = 6500] },
               r2 \in { NoStats,
                        [NoStats EXCEPT !.present = TRUE, !.total_trades = 5,
                                        !.evaluated_trades = 5,
                                        !.accuracy_score = 6500] } }
    /\ trade_cursor = [m \in Markets |-> None]
    /\ scoring_cursor = None
    /\ notifier_cursor = None
    /\ ing = IngIdle
    /\ sig = SigIdle
    /\ sco = [w \in Scorers |-> ScoIdle]
    /\ emit_count = <<>>
    /\ pass_log = [seen |-> None, inwin |-> {}, same_signals |-> FALSE,
                   same_window |-> FALSE, changed |-> FALSE,
                   rederived |-> FALSE]
    /\ replay_log = NoReplay
    /\ fav = NoCall
    /\ loop = NoLoop
    /\ notif = Deployed
    /\ now = 1700
    /\ trades \in EngineStores
    /\ signal_cursor \in {None} \cup { trades[i].traded_at : i \in 1..Len(trades) }
    /\ evaluated = [i \in 1..Len(trades) |->
                       IF signal_cursor # None /\ trades[i].traded_at <= signal_cursor
                       THEN 1 ELSE 0]

\* the price grid: every hundredth of [0, 1]
PriceGrid == 0..PriceScale

\* a call of is_favorable_move about to be made, for any entry price and
\* later price of the grid
InitFavorable ==
    /\ InitStore
    /\ notif = Deployed
    /\ fav \in [pc : {"args"}, entry_price : PriceGrid, later_price : PriceGrid,
                 sell : {FALSE}, buy : {FALSE}]
    /\ loop = NoLoop

\* one worker's run loop about to start, over the empty store
InitLoop ==
    /\ InitStore
    /\ notif = Deployed
    /\ fav = NoCall
    /\ loop \in { [NoLoop EXCEPT !.worker = w] :
                    w \in {"ingestion", "signals", "scoring", "notifier"} }

\* the loops' iterations: an iteration ends committed, idle or raising;
\* the trades endpoint answers a status and, with 200, a page of one entry;
\* the next poll is drawn from the ends of the configured interval
NextLoop ==
    LET Ends == {"ok", "idle", "raise"}
        Responses(m) ==
            { [status |-> st, page |-> <<>>] : st \in {404, 500} }
                \cup { [status |-> 200, page |-> <<t>>] :
                           t \in { u \in FeedOf(m) : u.trade_hash # "" } }
        Answers ==
            { resp \in [Markets -> UNION { Responses(m) : m \in Markets }] :
                \A m \in Markets : resp[m] \in Responses(m) }
        Refreshes ==
            { [result |-> r, active |-> {}] : r \in {"skip", "raise"} }
                \cup { [result |-> "ok", active |-> A] : A \in SUBSET Markets }
        PollIntervals == {ingestion_trades_poll_interval_min_seconds,
                          ingestion_trades_poll_interval_max_seconds}
    IN  \/ \E outcome \in Ends : SignalsRunWorker(outcome)
        \/ \E outcome \in Ends : ScoringRunWorker(outcome)
        \/ \E outcome \in Ends : RunNotifier(outcome)
        \/ \E refresh \in Refreshes : \E resp \in Answers :
             \E next \in [Markets -> PollIntervals] :
               RunWorker(refresh, resp, next)
        \/ \E refresh_due \in BOOLEAN : Elapse(refresh_due)

LoopSpec == InitLoop /\ [][NextLoop]_vars

\* the ingestion worker with the two commits of a poll as separate steps
Ingestion ==
    \/ \E m \in Markets : \E page \in Pages(m) : PollInsert(m, page)
    \/ PollStoreCursor
    \/ PollCrash

\* the ingestion worker as the downstream stages see it
Polls == \E m \in Markets : \E page \in Pages(m) : PollMarketTrades(m, page)

SignalsWorker == SignalsBegin \/ SignalsCommit \/ SignalsFail

ScoringWorker(w) == ScoringBegin(w) \/ ScoringFinish(w) \/ ScoringFail(w)

Notifier ==
    \/ NotifierIteration
    \/ \E k \in 1..NOTIFIER_LIMIT : NotifierFail(k)

\* one worker per stage, as deployed
Next ==
    \/ Polls
    \/ SignalsWorker
    \/ ScoringWorker(1)
    \/ Notifier

Spec == Init /\ [][Next]_vars

NextIngest == Ingestion

IngestSpec == Init /\ [][NextIngest]_vars

NextSignals == Polls \/ SignalsWorker

SignalsSpec == Init /\ [][NextSignals]_vars

NextAging == Tick \/ Polls \/ SignalsWorker \/ ScoringWorker(1)

AgingSpec == Init /\ [][NextAging]_vars

NextTwoScorers == Polls \/ SignalsWorker \/ ScoringWorker(1) \/ ScoringWorker(2)

TwoScorersSpec == Init /\ [][NextTwoScorers]_vars

NextReplay == Tick \/ Polls \/ ReplayRunOnce

ReplaySpec == Init /\ [][NextReplay]_vars

NextConfig == NotifierStart \/ Polls \/ SignalsWorker \/ ScoringWorker(1) \/ Notifier

ConfigSpec == InitConfig /\ [][NextConfig]_vars

NextAggregate ==
    \/ Tick
    \/ \E k \in SignalKinds : InsertSignal(k)
    \/ ScoringWorker(1)

AggregateSpec == Init /\ [][NextAggregate]_vars

NextEngine == EngineBegin \/ SignalsCommit \/ SignalsFail

EngineSpec == InitEngine /\ [][NextEngine]_vars

ImpactSpec == InitImpact /\ [][NextEngine]_vars

ClusterSpec == InitCluster /\ [][NextEngine]_vars

SmartSpec == InitSmart /\ [][NextEngine]_vars

StatsSpec == InitStats /\ [][NextEngine]_vars

NextHorizon == ProcessBackfill

HorizonSpec == InitHorizon /\ [][NextHorizon]_vars

NextFavorable == FavorableCalls

FavorableSpec == InitFavorable /\ [][NextFavorable]_vars

NextRawIngest == RawPolls

RawIngestSpec == Init /\ [][NextRawIngest]_vars

NextProfiler == Tick \/ Polls \/ LatePolls \/ ProcessBackfill

ProfilerSpec == Init /\ [][NextProfiler]_vars

\* the signals worker's loop never stops iterating
FairSignalsSpec == Init /\ [][NextSignals]_vars /\ WF_vars(SignalsWorker)

\* the notifier's loop never stops iterating
FairSpec == Init /\ [][Next]_vars /\ WF_vars(Notifier)

(* ---------------------------------------------------------------------- *)
(* Properties                                                              *)
(* ---------------------------------------------------------------------- *)
AlertKey(a) == <<a.market_id, a.side, a.event_type>>

OneAlertPerKey(table) ==
    \A i, j \in 1..Len(table) : AlertKey(table[i]) = AlertKey(table[j]) => i = j

\* C1: whatever passes of the two scoring workers commit, in whatever
\* order, the alerts table holds at most one row per (market_id, side,
\* event_type), no row disappears, and every row that existed before a pass
\* keeps its id and its key: a re-derived (market, side) is updated in place.
C1_OneAlertPerKey ==
    [][ /\ OneAlertPerKey(alerts')
        /\ Len(alerts') >= Len(alerts)
        /\ \A i \in 1..Len(alerts) :
               /\ alerts'[i].id = alerts[i].id
               /\ AlertKey(alerts'[i]) = AlertKey(alerts[i]) ]_vars

\* a pass re-derived a (market, side) that already had its alert row, while
\* the other scoring worker's transaction was open
C1_Witness ==
    /\ pass_log.rederived
    /\ \E w \in Scorers : sco[w].pc = "open"
    /\ Len(alerts) >= 1

\* C2: every trade committed to the trades table is eventually part of a
\* committed signals-worker batch, when the signals worker keeps iterating.
C2_NoTradeLost ==
    \A i \in 1..MaxTrades :
        (Len(trades) >= i) ~> (Len(evaluated) >= i /\ evaluated[i] >= 1)

\* C3: every watch or high alert row an aggregation pass inserts is
\* eventually emitted at least once, when the notifier keeps iterating.
C3_AtLeastOnce ==
    \A id \in 1..Cardinality(Markets \X Sides) :
        (Len(alerts) >= id /\ alerts[id].status \in {"watch", "high"})
            ~> (EmitOf(id) >= 1)

\* C4: no step of the ingestion worker decreases cursor:trades:m, for any
\* market m and any page the feed returns.
C4_TradeCursorMonotone ==
    [][ \A m \in Markets : trade_cursor'[m] >= trade_cursor[m] ]_vars

\* C5: the signals, scoring and notifier cursors never decrease, whether
\* an iteration commits, idles or fails, and every committed iteration of
\* the signals worker and of the scoring worker strictly increases its
\* cursor.
C5_CursorsMonotone ==
    [][ /\ signal_cursor' >= signal_cursor
        /\ scoring_cursor' >= scoring_cursor
        /\ notifier_cursor' >= notifier_cursor
        /\ (SignalsCommit => signal_cursor' > signal_cursor)
        /\ (ScoringFinish(1) => scoring_cursor' > scoring_cursor) ]_vars

\* every stage has committed, the signals worker more than once, and an
\* iteration of it has failed in between
C5_Witness ==
    /\ signal_cursor # None /\ scoring_cursor # None /\ notifier_cursor # None
    /\ \E i \in 1..Len(trades) : trades[i].traded_at < signal_cursor
    /\ sig.backoff_attempt >= 1

SignalKey(s) ==
    <<s.market_id, s.wallet_address, s.side, s.signal_type, s.observed_at>>

\* C6: a signals-worker iteration that fails persists no signal and leaves
\* the cursor as it was; signals become visible only together with the
\* cursor advance of their batch; and no signal of a batch is ever
\* persisted twice, however often the batch was retried.
C6_BatchAtomic ==
    [][ /\ (SignalsFail =>
               signal_events' = signal_events /\ signal_cursor' = signal_cursor)
        /\ (signal_events' # signal_events =>
               sig.pc = "open" /\ signal_cursor' = sig.latest_at
               /\ signal_cursor' # signal_cursor)
        /\ \A i, j \in 1..Len(signal_events') :
               SignalKey(signal_events'[i]) = SignalKey(signal_events'[j])
                   => i = j ]_vars

\* an iteration whose batch yields signals has failed: nothing of it is
\* stored, the cursor is where it was, and the batch is there to be retried
C6_Witness ==
    /\ sig.pc = "idle" /\ sig.backoff_attempt >= 1
    /\ signal_events = <<>> /\ signal_cursor = None
    /\ \E batch \in FetchTrades(trades, signal_cursor, BATCH_SIZE) :
           Evaluate(trades, wallet_stats, batch) # <<>>

\* C7: no reachable state has the rows of a poll committed while
\* cursor:trades:<market> still holds the value it had before the poll.
C7_InsertAndCursorAtomic ==
    ~ ( /\ ing.pc = "inserted"
        /\ ing.inserted > 0
        /\ ing.since # ing.latest_at
        /\ trade_cursor[ing.market] = ing.since )

\* C8: inserting a page a second time adds no row, for every page of the
\* feed and every reachable trades table, and no two stored trades share
\* the composite key (market, wallet, traded_at, side, shares, price).
C8_IngestionIdempotent ==
    /\ \A m \in Markets : \A page \in Pages(m) :
           InsertTradeRows(InsertTradeRows(trades, page), page)
               = InsertTradeRows(trades, page)
    /\ \A i, j \in 1..Len(trades) :
           DedupeKey(trades[i]) = DedupeKey(trades[j]) => i = j

\* a poll has just re-inserted rows that were all stored already: it added
\* nothing to a non-empty table
C8_Witness ==
    /\ ing.pc = "inserted" /\ ing.inserted = 0
    /\ Len(trades) >= 2

\* C9 (as stated): a pass that runs with no signal added since the previous
\* pass adds no alert row and changes no alert's (status, score).
C9_Idempotent == pass_log.same_signals => ~pass_log.changed

\* C9 (amended): a pass that runs with no signal added since the previous
\* pass, and with the same signals inside the aggregation window as the
\* previous pass had, adds no alert row and changes no alert's (status,
\* score).
C9_IdempotentSameWindow ==
    (pass_log.same_signals /\ pass_log.same_window) => ~pass_log.changed

\* a second pass over the same signals, all still inside the window, with
\* alerts to re-derive
C9_Witness ==
    /\ pass_log.same_signals /\ pass_log.same_window
    /\ pass_log.rederived
    /\ pass_log.inwin # {}

C11_AccuracyMatchesEvaluated ==
    \A w \in Wallets :
        wallet_stats[w].present =>
            IF wallet_stats[w].evaluated_trades < MIN_EVALUATED_TRADES
            THEN wallet_stats[w].accuracy_score = None
            ELSE /\ wallet_stats[w].accuracy_score # None
                 /\ wallet_stats[w].accuracy_score >= 0
                 /\ wallet_stats[w].accuracy_score <= 10000

\* C12: every stored trade has side 'buy' or 'sell' and a price within
\* [0, 1], whatever the entries of the feed contain.
C12_SideAndPriceValid ==
    \A i \in 1..Len(trades) :
        /\ trades[i].side \in {"buy", "sell"}
        /\ trades[i].price >= 0
        /\ trades[i].price <= PriceScale

\* C13: when a pass upserts an alert that already exists without changing
\* its status or score, the alert's updated_at increases (so that the
\* notifier, which selects on updated_at > cursor, emits it again).
C13_UpsertRefreshesUpdatedAt ==
    [][ ScoringFinish(1) =>
          \A i \in 1..Len(alerts) :
              ( /\ \E k \in 1..Len(Aggregate(signal_events, now)) :
                       i \in AlertIndex(alerts, Aggregate(signal_events, now)[k])
                /\ alerts'[i].status = alerts[i].status
                /\ alerts'[i].score = alerts[i].score )
                  => alerts'[i].updated_at > alerts[i].updated_at ]_vars

\* some message went out to the chat service
SentToChat == ~DryRun(notif) /\ \E i \in 1..Len(emit_count) : emit_count[i] > 0

\* C14: when the chat credentials are absent (bot token unset or left at
\* its default, or chat id unset), the notifier does not stop and sends
\* nothing to the chat service.
C14_NoCredentialsDryRun ==
    (notif.telegram_bot_token \in {"", "CHANGEME"} \/ notif.telegram_chat_id = "")
        => (notif.pc # "stopped" /\ ~SentToChat)

\* the signals of one (market, side) inside the aggregation window
GroupItems(events, current_time, k) ==
    SelectSeq(events, LAMBDA s :
        InWindow(s, current_time) /\ <<s.market_id, s.side>> = k)

CountOf(items, type, severity) ==
    Cardinality({ i \in 1..Len(items) :
        items[i].signal_type = type /\ items[i].severity = severity })

\* the documented defaults, doubled: weights 5, 3, 2, 4, 3.5, 6 and
\* multipliers 2, 1, 0.5
DefaultWeights ==
    [FRESH_WALLET_BIG_SIZE |-> 10, LOW_ACTIVITY_WALLET_BIG_SIZE |-> 6,
     REPEAT_ENTRIES |-> 4, THIN_MARKET_IMPACT |-> 8, CLUSTERING |-> 7,
     EARLY_POSITIONING |-> 12]

DefaultMultipliers == [high |-> 4, medium |-> 2, low |-> 1]

TypeSeq ==
    <<"FRESH_WALLET_BIG_SIZE", "LOW_ACTIVITY_WALLET_BIG_SIZE", "REPEAT_ENTRIES",
      "THIN_MARKET_IMPACT", "CLUSTERING", "EARLY_POSITIONING">>

SeveritySeq == <<"high", "medium", "low">>

\* sum of weight * multiplier over the members plus 2.5 per distinct type
\* after the first, in quarters
ExpectedScore(items) ==
    LET base == SumSeq([i \in 1..Len(TypeSeq) |->
                    SumSeq([j \in 1..Len(SeveritySeq) |->
                        CountOf(items, TypeSeq[i], SeveritySeq[j])
                            * DefaultWeights[TypeSeq[i]]
                            * DefaultMultipliers[SeveritySeq[j]]])])
        types == { items[i].signal_type : i \in 1..Len(items) }
    IN  base + 10 * Max(0, Cardinality(types) - 1)

TwoFreshOneClustering(items) ==
    /\ Len(items) = 3
    /\ CountOf(items, "FRESH_WALLET_BIG_SIZE", "high") = 2
    /\ CountOf(items, "CLUSTERING", "medium") = 1

\* C15: a pass gives every (market, side) group of in-window signals that
\* becomes an alert the score sum of weight * multiplier over its members
\* plus 2.5 * max(0, distinct types - 1); two FRESH_WALLET_BIG_SIZE (high)
\* and one CLUSTERING (medium) give 26.0 (104 quarters) and status high.
C15_GroupScore ==
    [][ ScoringFinish(1) =>
          \A k \in Markets \X Sides :
              LET items == GroupItems(signal_events, now, k)
              IN  (items # <<>> /\ ExpectedScore(items) >= watch_threshold) =>
                      \E i \in 1..Len(alerts') :
                          /\ alerts'[i].market_id = k[1]
                          /\ alerts'[i].side = k[2]
                          /\ alerts'[i].score = ExpectedScore(items)
                          /\ TwoFreshOneClustering(items) =>
                                 /\ alerts'[i].score = 104
                                 /\ alerts'[i].status = "high" ]_vars

\* a pass has scored two FRESH_WALLET_BIG_SIZE (high) and one CLUSTERING
\* (medium) on one (market, side)
C15_Witness ==
    /\ scoring_cursor = 3 /\ Len(signal_events) = 3
    /\ TwoFreshOneClustering(signal_events)
    /\ pass_log.inwin = {1, 2, 3}
    /\ \E i \in 1..Len(alerts) : alerts[i].score = 104 /\ alerts[i].status = "high"

\* C16: every alert row has a score of at least watch_threshold and the
\* status 'high' exactly when its score is at least high_threshold,
\* otherwise 'watch'; a pass neither inserts nor updates the alert of a
\* group whose score is below watch_threshold.
C16_Thresholds ==
    [][ /\ \A i \in 1..Len(alerts') :
               /\ alerts'[i].score >= 16
               /\ alerts'[i].status = IF alerts'[i].score >= 48 THEN "high" ELSE "watch"
        /\ ScoringFinish(1) =>
               \A k \in Markets \X Sides :
                   LET items == GroupItems(signal_events, now, k)
                   IN  (items # <<>> /\ ExpectedScore(items) < 16) =>
                           \A i \in 1..Len(alerts') :
                               (alerts'[i].market_id = k[1] /\ alerts'[i].side = k[2])
                                   => (i <= Len(alerts) /\ alerts'[i] = alerts[i]) ]_vars

\* the last pass met a group below watch_threshold whose (market, side)
\* already had its alert, and some alert's score lies exactly on a
\* threshold
C16_Witness ==
    /\ \E i \in 1..Len(alerts) :
           LET items == SelectSeq(signal_events, LAMBDA s :
                            /\ s.id \in pass_log.inwin
                            /\ s.market_id = alerts[i].market_id
                            /\ s.side = alerts[i].side)
           IN  items # <<>> /\ ExpectedScore(items) < 16
    /\ \E i \in 1..Len(alerts) : alerts[i].score \in {16, 48}

\* the batch of the open transaction, in the order it was evaluated
OpenBatch == [i \in 1..Len(sig.batch) |-> trades[sig.batch[i]]]

\* the pending signals of one type that belong to the k-th trade of the batch
SignalsOf(k, type) ==
    { j \in 1..Len(sig.pending) :
        /\ sig.pending[j].signal_type = type
        /\ sig.pending[j].market_id = OpenBatch[k].market_id
        /\ sig.pending[j].wallet_address = OpenBatch[k].wallet_address
        /\ sig.pending[j].side = OpenBatch[k].side
        /\ sig.pending[j].observed_at = OpenBatch[k].traded_at }

\* the wallet of the k-th trade has no trade in the store before the batch
\* and none earlier in the batch
NoEarlierTrade(k) ==
    /\ ~ \E i \in 1..Len(trades) :
            /\ trades[i].wallet_address = OpenBatch[k].wallet_address
            /\ trades[i].traded_at < OpenBatch[1].traded_at
    /\ ~ \E j \in 1..(k - 1) :
            OpenBatch[j].wallet_address = OpenBatch[k].wallet_address

\* C17: evaluate emits FRESH_WALLET_BIG_SIZE for a trade of the batch
\* exactly when its wallet has no trade in the store before the batch and
\* none earlier in the batch and shares * price >= 1000; the signal is
\* single, of severity high, and its score is the notional (2000 shares at
\* 0.60 give 1200).
C17_FreshWallet ==
    sig.pc = "open" =>
        \A k \in 1..Len(sig.batch) :
            IF NoEarlierTrade(k)
               /\ OpenBatch[k].shares * OpenBatch[k].price >= 1000 * 100
            THEN /\ Cardinality(SignalsOf(k, "FRESH_WALLET_BIG_SIZE")) = 1
                 /\ \A j \in SignalsOf(k, "FRESH_WALLET_BIG_SIZE") :
                        /\ sig.pending[j].severity = "high"
                        /\ sig.pending[j].score
                               = OpenBatch[k].shares * OpenBatch[k].price
                        /\ (OpenBatch[k].shares = 2000 /\ OpenBatch[k].price = 60)
                               => sig.pending[j].score = 1200 * 100
            ELSE SignalsOf(k, "FRESH_WALLET_BIG_SIZE") = {}

\* a single trade of 2000 shares at 0.60 by a wallet without prior trades
\* has been evaluated and has its signal of score 1200
C17_Witness ==
    /\ sig.pc = "open" /\ Len(sig.batch) = 1 /\ Len(trades) = 1
    /\ OpenBatch[1].shares = 2000 /\ OpenBatch[1].price = 60
    /\ \E j \in 1..Len(sig.pending) :
           /\ sig.pending[j].signal_type = "FRESH_WALLET_BIG_SIZE"
           /\ sig.pending[j].score = 120000

\* the number of trades the wallet of the k-th trade of the batch made in
\* the 24 hours before that trade
TradesInPriorDay(k) ==
    Cardinality({ i \in 1..Len(trades) :
        /\ trades[i].wallet_address = OpenBatch[k].wallet_address
        /\ trades[i].traded_at < OpenBatch[k].traded_at
        /\ trades[i].traded_at >= OpenBatch[k].traded_at - 1440 })

\* C18: evaluate emits LOW_ACTIVITY_WALLET_BIG_SIZE (medium, score =
\* notional) for a trade of the batch exactly when its wallet made at most
\* 2 trades in the 24 hours before that trade's timestamp and shares *
\* price >= 1000, wherever the trade stands in the batch and whatever time
\* the batch spans.
C18_LowActivity ==
    sig.pc = "open" =>
        \A k \in 1..Len(sig.batch) :
            IF TradesInPriorDay(k) <= 2
               /\ OpenBatch[k].shares * OpenBatch[k].price >= 1000 * 100
            THEN /\ Cardinality(SignalsOf(k, "LOW_ACTIVITY_WALLET_BIG_SIZE")) = 1
                 /\ \A j \in SignalsOf(k, "LOW_ACTIVITY_WALLET_BIG_SIZE") :
                        /\ sig.pending[j].severity = "medium"
                        /\ sig.pending[j].score
                               = OpenBatch[k].shares * OpenBatch[k].price
            ELSE SignalsOf(k, "LOW_ACTIVITY_WALLET_BIG_SIZE") = {}

\* the k-th trade of the batch and the earlier trades of the batch by the
\* same wallet on the same (market, side) made at most 10 minutes before it
RepeatCount(k) ==
    Cardinality({ j \in 1..k :
        /\ OpenBatch[j].wallet_address = OpenBatch[k].wallet_address
        /\ OpenBatch[j].market_id = OpenBatch[k].market_id
        /\ OpenBatch[j].side = OpenBatch[k].side
        /\ OpenBatch[k].traded_at - OpenBatch[j].traded_at <= 10 })

\* C19: within one batch, evaluate emits REPEAT_ENTRIES for a trade exactly
\* when that trade and the same wallet's earlier trades of the batch on the
\* same (market, side), made at most 10 minutes before it, number at least
\* 3; the signal is single, of severity medium, and its score is that
\* number.
C19_RepeatEntries ==
    sig.pc = "open" =>
        \A k \in 1..Len(sig.batch) :
            IF RepeatCount(k) >= 3
            THEN /\ Cardinality(SignalsOf(k, "REPEAT_ENTRIES")) = 1
                 /\ \A j \in SignalsOf(k, "REPEAT_ENTRIES") :
                        /\ sig.pending[j].severity = "medium"
                        /\ sig.pending[j].score = RepeatCount(k)
            ELSE SignalsOf(k, "REPEAT_ENTRIES") = {}

\* three trades by w1 on (1, buy) within 8 minutes were evaluated as one
\* batch: one REPEAT_ENTRIES signal, on the third trade, with score 3
C19_Witness ==
    /\ sig.pc = "open" /\ Len(sig.batch) = 3
    /\ \A k \in 1..3 :
           /\ OpenBatch[k].wallet_address = "w1"
           /\ OpenBatch[k].market_id = 1 /\ OpenBatch[k].side = "buy"
    /\ OpenBatch[3].traded_at - OpenBatch[1].traded_at = 8
    /\ \E j \in 1..Len(sig.pending) :
           /\ sig.pending[j].signal_type = "REPEAT_ENTRIES"
           /\ sig.pending[j].score = 3
           /\ sig.pending[j].observed_at = OpenBatch[3].traded_at
           /\ \A i \in 1..Len(sig.pending) :
                  sig.pending[i].signal_type = "REPEAT_ENTRIES" => i = j

\* the market's last 10 prices before the k-th trade of the batch: the
\* store's trades on that market before the batch, followed by the earlier
\* trades of the batch on it
PriorPrices(k) ==
    LET pre == SortByTradedAt(SelectSeq(trades, LAMBDA r :
                   /\ r.market_id = OpenBatch[k].market_id
                   /\ r.traded_at < OpenBatch[1].traded_at))
        inb == SelectSeq(SubSeq(OpenBatch, 1, k - 1), LAMBDA r :
                   r.market_id = OpenBatch[k].market_id)
    IN  LastN([i \in 1..Len(pre) |-> pre[i].price]
                  \o [i \in 1..Len(inb) |-> inb[i].price], 10)

\* 100 * |price - baseline| * n and baseline * n, n being the number of
\* prior prices: the deviation is their quotient, in hundredths
Deviation100(k) ==
    100 * Abs(OpenBatch[k].price * Len(PriorPrices(k)) - SumSeq(PriorPrices(k)))

\* C20: evaluate emits THIN_MARKET_IMPACT for a trade of the batch exactly
\* when there is a positive baseline, the mean of the market's last 10
\* prices before the trade (pre-batch history, then the earlier trades of
\* the batch, the trade's own price not among them), shares * price >= 500
\* and |price - baseline| / baseline >= 0.05; the signal is single, and
\* its severity is high when the deviation is >= 0.10 and medium otherwise.
C20_ThinMarketImpact ==
    sig.pc = "open" =>
        \A k \in 1..Len(sig.batch) :
            IF /\ SumSeq(PriorPrices(k)) > 0
               /\ OpenBatch[k].shares * OpenBatch[k].price >= 500 * 100
               /\ Deviation100(k) >= 5 * SumSeq(PriorPrices(k))
            THEN /\ Cardinality(SignalsOf(k, "THIN_MARKET_IMPACT")) = 1
                 /\ \A j \in SignalsOf(k, "THIN_MARKET_IMPACT") :
                        sig.pending[j].severity =
                            IF Deviation100(k) >= 10 * SumSeq(PriorPrices(k))
                            THEN "high" ELSE "medium"
            ELSE SignalsOf(k, "THIN_MARKET_IMPACT") = {}

\* a trade at 0.58 after more than ten prior trades on its market, the last
\* ten at 0.50, has its signal of severity high and deviation 0.16
C20_Witness ==
    /\ sig.pc = "open"
    /\ \E k \in 1..Len(sig.batch) :
           /\ OpenBatch[k].price = 58
           /\ PriorPrices(k) = [i \in 1..10 |-> 50]
           /\ Cardinality({ i \in 1..Len(trades) :
                  /\ trades[i].market_id = OpenBatch[k].market_id
                  /\ trades[i].traded_at < OpenBatch[k].traded_at }) > 10
           /\ \E j \in SignalsOf(k, "THIN_MARKET_IMPACT") :
                  /\ sig.pending[j].severity = "high"
                  /\ sig.pending[j].score = 1600

\* the k-th trade of the batch and the earlier trades of the batch on the
\* same (market, side) made at most 5 minutes before it
ClusterMembers(k) ==
    { j \in 1..k :
        /\ OpenBatch[j].market_id = OpenBatch[k].market_id
        /\ OpenBatch[j].side = OpenBatch[k].side
        /\ OpenBatch[k].traded_at - OpenBatch[j].traded_at <= 5 }

ClusterWallets(k) == { OpenBatch[j].wallet_address : j \in ClusterMembers(k) }

RECURSIVE SumNotional(_, _)
SumNotional(k, S) ==
    IF S = {} THEN 0
    ELSE LET j == CHOOSE x \in S : TRUE
         IN  OpenBatch[j].shares * OpenBatch[j].price + SumNotional(k, S \ {j})

StatsOf(k) == wallet_stats[OpenBatch[k].wallet_address]

\* C22: with the default thresholds, evaluate emits EARLY_POSITIONING for a
\* trade exactly when its wallet has a wallet_stats row with
\* evaluated_trades >= 5 and accuracy_score >= 0.60 and the trade's
\* notional is >= 100; the signal is single, of severity high when the
\* accuracy is >= 0.75 and medium otherwise.
C22_EarlyPositioning ==
    sig.pc = "open" =>
        \A k \in 1..Len(sig.batch) :
            IF /\ StatsOf(k).present
               /\ StatsOf(k).evaluated_trades >= 5
               /\ StatsOf(k).accuracy_score # None
               /\ StatsOf(k).accuracy_score >= 6000
               /\ OpenBatch[k].shares * OpenBatch[k].price >= 100 * 100
            THEN /\ Cardinality(SignalsOf(k, "EARLY_POSITIONING")) = 1
                 /\ \A j \in SignalsOf(k, "EARLY_POSITIONING") :
                        sig.pending[j].severity =
                            IF StatsOf(k).accuracy_score >= 7500
                            THEN "high" ELSE "medium"
            ELSE SignalsOf(k, "EARLY_POSITIONING") = {}

\* one batch held a trade of notional exactly 100 by a wallet with 5
\* evaluated trades whose accuracy is exactly 0.60, with its medium signal,
\* and a trade of notional 99.99 by it, without one
C22_Witness ==
    /\ sig.pc = "open"
    /\ wallet_stats["w1"].evaluated_trades = 5
    /\ wallet_stats["w1"].accuracy_score = 6000
    /\ \E k, l \in 1..Len(sig.batch) :
           /\ OpenBatch[k].wallet_address = "w1"
           /\ OpenBatch[k].shares * OpenBatch[k].price = 10000
           /\ \E j \in SignalsOf(k, "EARLY_POSITIONING") :
                  sig.pending[j].severity = "medium"
           /\ OpenBatch[l].wallet_address = "w1"
           /\ OpenBatch[l].shares * OpenBatch[l].price = 9999
           /\ SignalsOf(l, "EARLY_POSITIONING") = {}

\* the wallet of the batch's k-th trade has evaluated_trades = 15 and
\* accuracy_score = 0.75
SmartScenario(k) ==
    /\ StatsOf(k).present
    /\ StatsOf(k).evaluated_trades = 15
    /\ StatsOf(k).accuracy_score = 7500

\* C23 (as stated): a trade of notional 60 by a wallet with
\* evaluated_trades = 15 and accuracy_score = 0.75 has an EARLY_POSITIONING
\* signal of severity high.
C23_SmartWalletNotional60 ==
    sig.pc = "open" =>
        \A k \in 1..Len(sig.batch) :
            (SmartScenario(k) /\ OpenBatch[k].shares * OpenBatch[k].price = 60 * 100)
                => \E j \in SignalsOf(k, "EARLY_POSITIONING") :
                       sig.pending[j].severity = "high"

\* C23 (amended): a trade by a wallet with evaluated_trades = 15 and
\* accuracy_score = 0.75 has one EARLY_POSITIONING signal of severity high
\* when its notional is at least the engine's SMART_WALLET_MIN_NOTIONAL,
\* 100 by default, and none when it is less; a trade of notional 60 has
\* none by default and one (high) from an engine whose minimum was set to
\* 50.
C23_SmartWalletMinNotional ==
    sig.pc = "open" =>
        \A k \in 1..Len(sig.batch) :
            SmartScenario(k) =>
                /\ IF OpenBatch[k].shares * OpenBatch[k].price >= 100 * 100
                   THEN /\ Cardinality(SignalsOf(k, "EARLY_POSITIONING")) = 1
                        /\ \A j \in SignalsOf(k, "EARLY_POSITIONING") :
                               sig.pending[j].severity = "high"
                   ELSE SignalsOf(k, "EARLY_POSITIONING") = {}
                /\ OpenBatch[k].shares * OpenBatch[k].price = 60 * 100 =>
                       /\ Len(EarlyPositioning(OpenBatch[k], wallet_stats, 50)) = 1
                       /\ EarlyPositioning(OpenBatch[k], wallet_stats, 50)[1].severity
                              = "high"

\* one batch held a trade of notional 60 and a trade of notional 120 by a
\* wallet with evaluated_trades = 15 and accuracy_score = 0.75: only the
\* second has its signal
C23_Witness ==
    /\ sig.pc = "open"
    /\ \E k, l \in 1..Len(sig.batch) :
           /\ SmartScenario(k) /\ SmartScenario(l)
           /\ OpenBatch[k].shares * OpenBatch[k].price = 6000
           /\ SignalsOf(k, "EARLY_POSITIONING") = {}
           /\ OpenBatch[l].shares * OpenBatch[l].price = 12000
           /\ \E j \in SignalsOf(l, "EARLY_POSITIONING") :
                  sig.pending[j].severity = "high"

\* C24: is_favorable_move("sell", p0, p1) = is_favorable_move("buy", p0,
\* 2 * p0 - p1) for all prices p0 and p1 of the grid.
C24_FavorableSymmetry ==
    fav.pc = "done" => fav.sell = fav.buy

\* a sell whose later price is exactly 0.05 below the entry price: both
\* calls returned True
C24_Witness ==
    /\ fav.pc = "done"
    /\ fav.entry_price - fav.later_price = 5
    /\ fav.sell /\ fav.buy

\* the trades up to the signals cursor, in the order an earlier batch that
\* held them all was evaluated in
EarlierBatch ==
    SortByTradedAt(SelectSeq(trades, LAMBDA r : r.traded_at <= signal_cursor))

\* C25: the signals of a time-ordered trade sequence do not depend on how
\* the worker splits it into batches: the signals of the batch up to the
\* cursor followed by those of the batch after it (evaluated with the first
\* batch's trades in the store) are the signals of the whole sequence
\* evaluated as one batch.
C25_BatchSplitIndependent ==
    (sig.pc = "open" /\ signal_cursor # None
        /\ Len(EarlierBatch) + Len(OpenBatch) = Len(trades)) =>
        Evaluate(trades, wallet_stats, EarlierBatch) \o sig.pending
            = Evaluate(trades, wallet_stats, EarlierBatch \o OpenBatch)

\* C26: the scoring worker starts a pass only when a signal with id greater
\* than cursor:scoring:last_signal_id exists; a pass scores every signal
\* inside the time window, those with id at or below the cursor included
\* (each group that reaches watch_threshold has an alert with the score of
\* all its in-window signals); and no step changes the alerts or the
\* cursor while no newer signal exists.
C26_CursorGatesPass ==
    [][ /\ (ScoringBegin(1) \/ alerts' # alerts \/ scoring_cursor' # scoring_cursor)
               => \E i \in 1..Len(signal_events) :
                      signal_events[i].id > scoring_cursor
        /\ ScoringFinish(1) =>
               \A k \in Markets \X Sides :
                   LET items == SelectSeq(signal_events, LAMBDA e :
                                    /\ <<e.market_id, e.side>> = k
                                    /\ (\/ e.observed_at >= now - WINDOW
                                        \/ e.created_at >= now - WINDOW))
                   IN  (items # <<>> /\ ExpectedScore(items) >= watch_threshold) =>
                           \E i \in 1..Len(alerts') :
                               /\ alerts'[i].market_id = k[1]
                               /\ alerts'[i].side = k[2]
                               /\ alerts'[i].score = ExpectedScore(items) ]_vars

\* an alert inserted by an earlier pass, before the second signal of its
\* group was stored, carries the score of both signals after the pass that
\* the second signal set off
C26_Witness ==
    /\ scoring_cursor = 2 /\ Len(signal_events) = 2
    /\ pass_log.inwin = {1, 2}
    /\ sco[1].pc = "idle"
    /\ \E i \in 1..Len(alerts) :
           /\ alerts[i].updated_at < signal_events[2].created_at
           /\ \A j \in 1..2 : /\ signal_events[j].market_id = alerts[i].market_id
                               /\ signal_events[j].side = alerts[i].side
           /\ alerts[i].score = ExpectedScore(signal_events)
           /\ alerts[i].score > ExpectedScore(<<signal_events[2]>>)

\* C27: every wallet_stats row with evaluated_trades >= 5 has an
\* accuracy_score equal to 0.2 * correct_15m / evaluated_trades + 0.3 *
\* correct_1h / evaluated_trades + 0.5 * correct_4h / evaluated_trades of
\* the counts stored in that row (to the four decimals of the column),
\* after any sequence of profiler passes.
C27_AccuracyFromRow ==
    \A w \in Wallets :
        (wallet_stats[w].present /\ wallet_stats[w].evaluated_trades >= 5) =>
            LET row == wallet_stats[w]
                weighted == 2 * row.correct_15m + 3 * row.correct_1h
                                + 5 * row.correct_4h
            IN  /\ row.accuracy_score # None
                /\ 2 * Abs(row.accuracy_score * row.evaluated_trades
                               - 1000 * weighted) <= row.evaluated_trades

\* the trades of wallet w in the store
TradesOfWallet(w) == { i \in 1..Len(trades) : trades[i].wallet_address = w }

\* C28: a trade contributes to its wallet's counters at most once: the
\* evaluated_trades of a wallet_stats row never exceeds the number of that
\* wallet's trades in the store, however often the profiler pass is
\* repeated.
C28_TradeCountedOnce ==
    \A w \in Wallets :
        wallet_stats[w].evaluated_trades <= Cardinality(TradesOfWallet(w))

\* C29: a pass counts a trade in its wallet's evaluated_trades only if the
\* trade's 4-hour horizon has elapsed at the time of the pass: a wallet's
\* evaluated_trades grows only when the wallet has a trade with traded_at +
\* 4h <= now.
C29_OnlyOldEnoughTrades ==
    [][ \A w \in Wallets :
          wallet_stats'[w].evaluated_trades > wallet_stats[w].evaluated_trades
              => \E i \in TradesOfWallet(w) :
                     trades[i].traded_at + HORIZON_4H <= now ]_vars

\* the trades of wallet w a pass evaluates: those of the last 24 hours
\* whose notional reaches the profiler's minimum
EvaluatedTrades(w) ==
    { i \in TradesOfWallet(w) :
        /\ trades[i].traded_at >= now - PROFILING_WINDOW
        /\ trades[i].shares * trades[i].price >= MIN_NOTIONAL_THRESHOLD * PriceScale }

\* a later price was found for trade i at the horizon and the delta in the
\* position's favour is at least 0.05
FavorableAt(i, horizon) ==
    \E p \in GetPriceAtTime(trades, trades[i].market_id,
                            trades[i].traded_at + horizon) :
        /\ p # None
        /\ CalculateDelta(trades[i].side, trades[i].price, p) >= 5

\* C30: for every trade a pass evaluates and every horizon (15m, 1h, 4h),
\* the horizon is counted correct exactly when a later price was found
\* within the tolerance and the favorable delta of calculate_delta is >=
\* 0.05, whatever the later price in [0, 1]: the pass adds to each correct
\* counter of a wallet the number of its evaluated trades for which that
\* holds.
C30_CorrectIffFavorableDelta ==
    [][ \A w \in Wallets :
          wallet_stats'[w].evaluated_trades > wallet_stats[w].evaluated_trades =>
              /\ wallet_stats'[w].correct_15m - wallet_stats[w].correct_15m
                     = Cardinality({ i \in EvaluatedTrades(w) :
                                       FavorableAt(i, HORIZON_15M) })
              /\ wallet_stats'[w].correct_1h - wallet_stats[w].correct_1h
                     = Cardinality({ i \in EvaluatedTrades(w) :
                                       FavorableAt(i, HORIZON_1H) })
              /\ wallet_stats'[w].correct_4h - wallet_stats[w].correct_4h
                     = Cardinality({ i \in EvaluatedTrades(w) :
                                       FavorableAt(i, HORIZON_4H) }) ]_vars

\* C31: an iteration of the notifier that raises leaves
\* cursor:notifier:last_alert_ts and the alerts as they were, and the
\* alerts it had emitted before raising are emitted a second time, none of
\* them being skipped: when the cursor moves past an alert that was emitted
\* while the cursor stayed behind it, that alert has been emitted again.
C31_FailedBatchEmittedAgain ==
    [][ /\ (\E k \in 1..NOTIFIER_LIMIT : NotifierFail(k)) =>
               (notifier_cursor' = notifier_cursor /\ alerts' = alerts)
        /\ \A i \in 1..Len(alerts) :
               ( /\ EmitOf(i) >= 1
                 /\ (notifier_cursor = None
                        \/ alerts[i].updated_at > notifier_cursor)
                 /\ notifier_cursor' # None
                 /\ alerts[i].updated_at <= notifier_cursor' )
                   => emit_count'[i] >= 2 ]_vars

BackoffBaseOf(w) ==
    IF w = "ingestion" THEN ingestion_backoff_base_seconds
    ELSE BACKOFF_BASE_SECONDS

BackoffMaxOf(w) ==
    CASE w = "ingestion" -> ingestion_backoff_max_seconds
      [] w = "signals" -> SIGNALS_BACKOFF_MAX_SECONDS
      [] w = "scoring" -> SCORING_BACKOFF_MAX_SECONDS
      [] OTHER -> NOTIFIER_BACKOFF_MAX_SECONDS

\* C32: in every worker loop the sleep after an iteration that raised is
\* min(max_backoff, base * 2^k), k being the number of iterations that
\* raised since the last iteration that did not raise (one that found no
\* work included): base seconds for the first failure after such an
\* iteration, and never more than max_backoff
C32_BackoffSinceCleanIteration ==
    loop.last = "raised" =>
        /\ loop.backoff = Min(BackoffMaxOf(loop.worker),
                              BackoffBaseOf(loop.worker) * 2^(loop.failures - 1))
        /\ loop.backoff <= BackoffMaxOf(loop.worker)
        /\ loop.failures = 1 => loop.backoff = BackoffBaseOf(loop.worker)

\* the markets an ingestion iteration finds due: active after the refresh
\* and either new to the schedule or with their interval elapsed
DueAtStart ==
    { m \in loop'.active : m \notin loop.active \/ loop.poll_schedule[m] = 0 }

\* C33: when the poll of one market raises, the same iteration still polls
\* every other active market that is due, ends with the backoff counter not
\* incremented and without a backoff sleep, and schedules the failed
\* market's next poll within the poll interval, as for a successful poll
C33_PollFailureIsolated ==
    [][ ( /\ loop'.worker = "ingestion"
          /\ loop'.last = "ok"
          /\ \E m \in Markets : loop'.status[m] = 500 )
          => /\ \A m \in DueAtStart :
                   /\ loop'.status[m] # None
                   /\ loop'.poll_schedule[m] \in
                          {ingestion_trades_poll_interval_min_seconds,
                           ingestion_trades_poll_interval_max_seconds}
             /\ \A m \in Markets : loop'.status[m] # None => m \in DueAtStart
             /\ loop'.backoff_attempt = 0
             /\ loop'.backoff_attempt <= loop.backoff_attempt
             /\ loop'.backoff = None ]_vars

\* the poll of market 1 raised, and market 2 was polled in the same
\* iteration and its trade stored
C33_Witness ==
    /\ loop.worker = "ingestion"
    /\ loop.last = "ok"
    /\ loop.status[1] = 500
    /\ loop.status[2] = 200
    /\ loop.backoff_attempt = 0
    /\ Len(trades) = 1
    /\ trades[1].market_id = 2
    /\ trade_cursor[2] = 11
    /\ loop.poll_schedule[1] = ingestion_trades_poll_interval_max_seconds

\* the stored trades of a market
RowsOf(store, m) == { store[i] : i \in { j \in 1..Len(store) : store[j].market_id = m } }

\* C34 as stated: a non-2xx answer other than 404 to a trades request ends
\* the ingestion iteration in the outer handler with its backoff sleep, and
\* a 404 leaves the market's trades and cursor as they were
C34_HttpErrorBacksOff ==
    [][ ( /\ loop'.worker = "ingestion"
          /\ loop'.last \in {"ok", "idle", "raised"} )
          => \A m \in Markets :
                /\ loop'.status[m] = 500 =>
                       /\ loop'.last = "raised"
                       /\ loop'.backoff # None
                /\ loop'.status[m] = 404 =>
                       /\ trade_cursor'[m] = trade_cursor[m]
                       /\ RowsOf(trades', m) = RowsOf(trades, m) ]_vars

\* C34, amended: a non-2xx answer other than 404 raises inside the poll of
\* that market and is caught there: the iteration completes without a
\* backoff sleep and with the backoff counter at 0, and the market's trades
\* and cursor are as they were; a 404 is an empty list, not an error, and
\* leaves the market's trades and cursor as they were
C34_HttpErrorCaughtPerMarket ==
    [][ ( /\ loop'.worker = "ingestion"
          /\ loop'.last \in {"ok", "idle", "raised"} )
          => \A m \in Markets :
                /\ loop'.status[m] \in {404, 500} =>
                       /\ trade_cursor'[m] = trade_cursor[m]
                       /\ RowsOf(trades', m) = RowsOf(trades, m)
                /\ loop'.status[m] = 500 =>
                       /\ loop'.last = "ok"
                       /\ loop'.backoff = None
                       /\ loop'.backoff_attempt = 0 ]_vars

\* both markets have a stored trade and a cursor; in the last iteration the
\* endpoint answered 500 for market 1 and 404 for market 2
C34_Witness ==
    /\ loop.worker = "ingestion"
    /\ loop.last = "ok"
    /\ loop.status[1] = 500
    /\ loop.status[2] = 404
    /\ trade_cursor[1] # None
    /\ trade_cursor[2] = 11
    /\ Len(trades) = 2

\* C35: poll_market_trades changes cursor:trades:m only when the insert
\* accepted at least one row of the fetched page, and then sets it to the
\* largest traded_at of the page; a page of duplicates leaves it unchanged
C35_CursorOnlyWhenAccepted ==
    [][ \A m \in Markets :
            /\ trade_cursor'[m] # trade_cursor[m] =>
                   /\ ing.pc = "inserted"
                   /\ ing.market = m
                   /\ ing.inserted >= 1
                   /\ trade_cursor'[m] = ing.latest_at
            /\ (ing.pc = "inserted" /\ ing.market = m /\ ing.inserted = 0
                  /\ ing'.pc = "idle")
                   => trade_cursor'[m] = trade_cursor[m] ]_vars

\* C36: over the committed batches of the signals worker trades are
\* evaluated in non-decreasing traded_at order (a batch is in that order,
\* and no trade of it is older than a trade evaluated before), and the
\* signal_events of one (market, side) have non-decreasing observed_at in
\* id order
C36_TimeOrdered ==
    /\ sig.pc = "open" =>
           /\ \A a, b \in 1..Len(sig.batch) :
                  a < b => OpenBatch[a].traded_at <= OpenBatch[b].traded_at
           /\ \A i \in 1..Len(trades) : \A k \in 1..Len(sig.batch) :
                  evaluated[i] >= 1 =>
                      trades[i].traded_at <= OpenBatch[k].traded_at
    /\ \A i, j \in 1..Len(signal_events) :
           ( /\ i < j
             /\ signal_events[i].market_id = signal_events[j].market_id
             /\ signal_events[i].side = signal_events[j].side )
               => signal_events[i].observed_at <= signal_events[j].observed_at

\* three trades, stored out of time order, were evaluated in more than one
\* committed batch (a batch holds at most BATCH_SIZE), and (1, buy) has
\* signals of two different times
C36_Witness ==
    /\ sig.pc = "idle"
    /\ Len(trades) > BATCH_SIZE
    /\ \A i \in 1..Len(trades) : evaluated[i] >= 1
    /\ \E i, j \in 1..Len(trades) : i < j /\ trades[i].traded_at > trades[j].traded_at
    /\ \E i, j \in 1..Len(signal_events) :
           /\ i < j
           /\ signal_events[i].market_id = 1
           /\ signal_events[j].market_id = 1
           /\ signal_events[i].side = "buy"
           /\ signal_events[j].side = "buy"
           /\ signal_events[i].observed_at < signal_events[j].observed_at

\* C37: missing wallet_stats only suppress EARLY_POSITIONING: the signals of
\* every other type that evaluate emits for a batch over a store are the
\* ones it emits with no wallet_stats row at all, in the same order, and a
\* trade gets EARLY_POSITIONING only when its wallet has a row with
\* evaluated_trades >= 5 and accuracy_score >= 0.60
C37_MissingStatsOnlySuppressEarly ==
    sig.pc = "open" =>
        /\ SelectSeq(sig.pending, LAMBDA s : s.signal_type # "EARLY_POSITIONING")
               = Evaluate(trades, [w \in Wallets |-> NoStats], OpenBatch)
        /\ \A j \in 1..Len(sig.pending) :
               sig.pending[j].signal_type = "EARLY_POSITIONING" =>
                   /\ wallet_stats[sig.pending[j].wallet_address].present
                   /\ wallet_stats[sig.pending[j].wallet_address].evaluated_trades >= 5
                   /\ wallet_stats[sig.pending[j].wallet_address].accuracy_score >= 6000

\* a batch with trades of w1, which qualifies, and of w2, which has no row:
\* w1 gets EARLY_POSITIONING, w2 does not, and the batch has a signal of
\* another type as well
C37_Witness ==
    /\ sig.pc = "open"
    /\ ~wallet_stats["w2"].present
    /\ \E k \in 1..Len(sig.batch) :
           /\ OpenBatch[k].wallet_address = "w2"
           /\ OpenBatch[k].shares * OpenBatch[k].price >= 100 * 100
    /\ \E j \in 1..Len(sig.pending) :
           /\ sig.pending[j].signal_type = "EARLY_POSITIONING"
           /\ sig.pending[j].wallet_address = "w1"
    /\ \E j \in 1..Len(sig.pending) :
           sig.pending[j].signal_type # "EARLY_POSITIONING"

\* C38: whenever evaluate emits FRESH_WALLET_BIG_SIZE for a trade it emits
\* LOW_ACTIVITY_WALLET_BIG_SIZE for the same trade right after it: a large
\* first trade of a wallet puts two signals of two types into its
\* (market, side) group
C38_FreshImpliesLowActivity ==
    sig.pc = "open" =>
        /\ \A j \in 1..Len(sig.pending) :
               sig.pending[j].signal_type = "FRESH_WALLET_BIG_SIZE" =>
                   /\ j < Len(sig.pending)
                   /\ sig.pending[j + 1].signal_type = "LOW_ACTIVITY_WALLET_BIG_SIZE"
                   /\ sig.pending[j + 1].market_id = sig.pending[j].market_id
                   /\ sig.pending[j + 1].side = sig.pending[j].side
                   /\ sig.pending[j + 1].wallet_address = sig.pending[j].wallet_address
                   /\ sig.pending[j + 1].observed_at = sig.pending[j].observed_at
        /\ \A k \in 1..Len(sig.batch) :
               SignalsOf(k, "FRESH_WALLET_BIG_SIZE") # {} =>
                   SignalsOf(k, "LOW_ACTIVITY_WALLET_BIG_SIZE") # {}

\* a batch of four trades whose first is the first trade of w1 and large: it
\* has both signals, and a later trade of w1 in the batch has neither
C38_Witness ==
    /\ sig.pc = "open"
    /\ Len(sig.batch) = 4
    /\ OpenBatch[1].wallet_address = "w1"
    /\ SignalsOf(1, "FRESH_WALLET_BIG_SIZE") # {}
    /\ SignalsOf(1, "LOW_ACTIVITY_WALLET_BIG_SIZE") # {}
    /\ OpenBatch[4].wallet_address = "w1"
    /\ OpenBatch[4].traded_at > OpenBatch[1].traded_at
    /\ SignalsOf(4, "FRESH_WALLET_BIG_SIZE") = {}
    /\ SignalsOf(4, "LOW_ACTIVITY_WALLET_BIG_SIZE") = {}

\* C39: over the committed batches of the signals worker, signal_events
\* never holds two FRESH_WALLET_BIG_SIZE rows of the same wallet
C39_OneFreshPerWallet ==
    \A i, j \in 1..Len(signal_events) :
        ( /\ i # j
          /\ signal_events[i].signal_type = "FRESH_WALLET_BIG_SIZE"
          /\ signal_events[j].signal_type = "FRESH_WALLET_BIG_SIZE" )
            => signal_events[i].wallet_address # signal_events[j].wallet_address

\* w2's FRESH_WALLET_BIG_SIZE is stored, and a later batch holds another
\* large trade of w2 and has no such signal pending
C39_Witness ==
    /\ sig.pc = "open"
    /\ Len(sig.batch) = 1
    /\ OpenBatch[1].wallet_address = "w2"
    /\ OpenBatch[1].shares * OpenBatch[1].price >= 1000 * 100
    /\ \E i \in 1..Len(signal_events) :
           /\ signal_events[i].signal_type = "FRESH_WALLET_BIG_SIZE"
           /\ signal_events[i].wallet_address = "w2"
           /\ signal_events[i].observed_at < OpenBatch[1].traded_at
    /\ \A j \in 1..Len(sig.pending) :
           sig.pending[j].signal_type # "FRESH_WALLET_BIG_SIZE"

\* C40: no step removes an alert or changes its id or key, and an
\* aggregation pass leaves every alert as it was whose (market, side) group
\* has no signal inside the window in that pass or scores below
\* watch_threshold in it: the alert keeps the status and score (and
\* updated_at) that the last pass to write it gave it
C40_StaleAlertsUntouched ==
    [][ /\ Len(alerts') >= Len(alerts)
        /\ \A i \in 1..Len(alerts) :
               /\ alerts'[i].id = alerts[i].id
               /\ alerts'[i].market_id = alerts[i].market_id
               /\ alerts'[i].side = alerts[i].side
        /\ ScoringFinish(1) =>
               \A i \in 1..Len(alerts) :
                   LET items == GroupItems(signal_events, now,
                                           <<alerts[i].market_id, alerts[i].side>>)
                   IN  (items = <<>> \/ ExpectedScore(items) < watch_threshold)
                           => alerts'[i] = alerts[i] ]_vars

\* the last pass saw no signal of an alert's group inside the window, though
\* the store holds signals of that group, and it wrote another alert; the
\* first alert still has a status and a score of at least watch_threshold
C40_Witness ==
    /\ pass_log.seen # None
    /\ pass_log.changed
    /\ sco[1].pc = "idle"
    /\ \E i \in 1..Len(alerts) :
           /\ \E j \in 1..Len(signal_events) :
                  /\ signal_events[j].market_id = alerts[i].market_id
                  /\ signal_events[j].side = alerts[i].side
           /\ \A j \in 1..Len(signal_events) :
                  ( /\ signal_events[j].market_id = alerts[i].market_id
                    /\ signal_events[j].side = alerts[i].side )
                      => signal_events[j].id \notin pass_log.inwin
           /\ alerts[i].status \in {"watch", "high"}
           /\ alerts[i].score >= watch_threshold

====
